---- MODULE Spec2Model ----
(***************************************************************************)
(* Nutrition Tables add-on: phrase normalizer, alias resolver, dataset     *)
(* indexer and nutrient aggregator, modelled from the JavaScript source.   *)
(*                                                                         *)
(* Representation.                                                         *)
(*  - A JavaScript string is a sequence of one-character strings, so that  *)
(*    substring tests, splitting and trimming are computed, not assumed.   *)
(*  - A JavaScript value is a record [t, n, s]: t is the type tag, n the   *)
(*    number (or 1/0 of a boolean), s the characters of a string.          *)
(*  - Numbers are integers.  A portion-scaled quantity v * (portion/100)   *)
(*    is kept exactly as the integer v * portion, in hundredths.  Ratios   *)
(*    (confidence of a containment match, weighted averages) are kept as   *)
(*    a numerator and a positive denominator.  Floating-point rounding is  *)
(*    outside the model.                                                   *)
(***************************************************************************)
EXTENDS Integers, Sequences, FiniteSets, TLC

(***************************************************************************)
(* JavaScript values                                                       *)
(***************************************************************************)
Undef == [t |-> "undef", n |-> 0, s |-> <<>>]

Null == [t |-> "null", n |-> 0, s |-> <<>>]

NaN == [t |-> "nan", n |-> 0, s |-> <<>>]

Num(x) == [t |-> "num", n |-> x, s |-> <<>>]

Str(x) == [t |-> "str", n |-> 0, s |-> x]

Bool(b) == [t |-> "bool", n |-> IF b THEN 1 ELSE 0, s |-> <<>>]

\* ToBoolean: what `if (v)`, `!v`, `a || b` and `a && b` test.
Truthy(v) ==
  CASE v.t = "num"  -> v.n # 0
    [] v.t = "str"  -> v.s # <<>>
    [] v.t = "bool" -> v.n = 1
    [] OTHER        -> FALSE

\* a || b
JsOr(a, b) == IF Truthy(a) THEN a ELSE b

(***************************************************************************)
(* Characters and strings                                                  *)
(***************************************************************************)
DigitChars == <<"0","1","2","3","4","5","6","7","8","9">>

LowerChars ==
  <<"a","b","c","d","e","f","g","h","i","j","k","l","m",
    "n","o","p","q","r","s","t","u","v","w","x","y","z">>

UpperChars ==
  <<"A","B","C","D","E","F","G","H","I","J","K","L","M",
    "N","O","P","Q","R","S","T","U","V","W","X","Y","Z">>

Range(f) == { f[i] : i \in DOMAIN f }

Digits == Range(DigitChars)

LowerLetters == Range(LowerChars)

UpperLetters == Range(UpperChars)

\* \w of a JavaScript regular expression
WordChars == Digits \cup LowerLetters \cup UpperLetters \cup {"_"}

\* the nine vulgar-fraction characters of the quantity pattern (1/4, 1/2,
\* 3/4, 1/3, 2/3, 1/8, 3/8, 5/8, 7/8), each one character of a string
VulgarFractions ==
  {"frac14","frac12","frac34","frac13","frac23","frac18","frac38","frac58","frac78"}

Min(S) == CHOOSE x \in S : \A y \in S : x <= y

Max(S) == CHOOSE x \in S : \A y \in S : x >= y

LowerChar(c) ==
  IF c \in UpperLetters
    THEN LowerChars[CHOOSE i \in DOMAIN UpperChars : UpperChars[i] = c]
    ELSE c

\* String.prototype.toLowerCase
Lower(s) == [i \in 1..Len(s) |-> LowerChar(s[i])]

\* String.prototype.trim (the only white space of the model is " ")
Trim(s) ==
  LET keep == { i \in 1..Len(s) : s[i] # " " }
  IN  IF keep = {} THEN <<>> ELSE SubSeq(s, Min(keep), Max(keep))

\* String.prototype.includes
Includes(s, sub) ==
  \E i \in 0..(Len(s) - Len(sub)) : SubSeq(s, i + 1, i + Len(sub)) = sub

\* String.prototype.endsWith
EndsWith(s, suf) ==
  /\ Len(suf) <= Len(s)
  /\ SubSeq(s, Len(s) - Len(suf) + 1, Len(s)) = suf

\* String.prototype.startsWith
StartsWith(s, pre) ==
  /\ Len(pre) <= Len(s)
  /\ SubSeq(s, 1, Len(pre)) = pre

\* s.split(" ").filter(Boolean): the non-empty pieces between spaces
RECURSIVE SplitWords(_)
SplitWords(s) ==
  IF s = <<>> THEN <<>>
  ELSE IF s[1] = " " THEN SplitWords(Tail(s))
  ELSE LET spaces == { i \in 1..Len(s) : s[i] = " " }
           stop   == IF spaces = {} THEN Len(s) + 1 ELSE Min(spaces)
       IN  <<SubSeq(s, 1, stop - 1)>> \o SplitWords(SubSeq(s, stop, Len(s)))

\* parts.join(" ")
RECURSIVE JoinWords(_)
JoinWords(parts) ==
  IF parts = <<>> THEN <<>>
  ELSE IF Len(parts) = 1 THEN parts[1]
  ELSE parts[1] \o <<" ">> \o JoinWords(Tail(parts))

\* decimal digits of a natural number
RECURSIVE NatToString(_)
NatToString(x) ==
  IF x < 10 THEN <<DigitChars[x + 1]>>
  ELSE NatToString(x \div 10) \o <<DigitChars[(x % 10) + 1]>>

\* String(v) / v.toString()
JsString(v) ==
  CASE v.t = "str"   -> v.s
    [] v.t = "num"   -> IF v.n < 0 THEN <<"-">> \o NatToString(0 - v.n)
                        ELSE NatToString(v.n)
    [] v.t = "bool"  -> IF v.n = 1 THEN <<"t","r","u","e">>
                        ELSE <<"f","a","l","s","e">>
    [] v.t = "null"  -> <<"n","u","l","l">>
    [] v.t = "nan"   -> <<"N","a","N">>
    [] OTHER         -> <<"u","n","d","e","f","i","n","e","d">>

\* Number(v).  The CSV loader parses with dynamicTyping, so a cell that
\* looks like a number is already a number and an empty cell is null; a
\* string that reaches Number() is blank (0) or text (NaN).
JsNumber(v) ==
  CASE v.t = "num"  -> v
    [] v.t = "null" -> Num(0)
    [] v.t = "bool" -> Num(v.n)
    [] v.t = "str"  -> IF Trim(v.s) = <<>> THEN Num(0) ELSE NaN
    [] OTHER        -> NaN

(***************************************************************************)
(* CONFIG.FIELD_ALIASES                                                    *)
(***************************************************************************)
A_canonical == <<"canonical","canonical_name","ingredient","food","item","name">>

A_alias == <<"alias","synonym","alt","alt_name","alias_name">>

A_calories == <<"calories","kcal","energy_kcal","kcal_per100","calories_per100">>

A_protein_g == <<"protein","protein_g","prot_g","protein_per100_g","protein_per100">>

A_fiber_g == <<"fiber","fibre","fiber_g","dietary_fiber_g","fiber_per100_g">>

A_carbs_g == <<"carbs","carbohydrates","carbohydrate_g","net_carb_g","carb_g","carbs_per100_g">>

A_fat_g == <<"fat","fat_g","total_fat_g","fat_per100_g">>

A_gi == <<"gi","glycemic_index","GI">>

A_gl == <<"gl","glycemic_load","GL">>

A_dii == <<"dii","anti-inflammatory_score","inflammatory_index","DII">>

A_serving_size_g ==
  <<"serving_size_g","serving_g","portion_g","default_portion_g",
    "portion_size_g","serving_g_estimate">>

\* the second key list of canonicalUniverseFromMain and indexByCanonical
KeyFallback == <<"ingredient","food","name","item">>

\* toLowerCase of a column name.  Column names are TLA+ strings; the names
\* with upper-case letters that occur in the model are listed here.
LowerName(k) ==
  CASE k = "GI"         -> "gi"
    [] k = "GL"         -> "gl"
    [] k = "DII"        -> "dii"
    [] k = "Ingredient" -> "ingredient"
    [] k = "Canonical"  -> "canonical"
    [] k = "Alias"      -> "alias"
    [] k = "Calories"   -> "calories"
    [] k = "Name"       -> "name"
    [] k = "MIND"          -> "mind"
    [] k = "DASH"          -> "dash"
    [] k = "Mediterranean" -> "mediterranean"
    [] k = "Vegan"         -> "vegan"
    [] k = "Vegetarian"    -> "vegetarian"
    [] k = "Pescatarian"   -> "pescatarian"
    [] k = "Gluten-Free"   -> "gluten-free"
    [] k = "Keto"          -> "keto"
    [] k = "KETO"          -> "keto"
    [] k = "Paleo"         -> "paleo"
    [] k = "Low-FODMAP"    -> "low-fodmap"
    [] OTHER            -> k

(***************************************************************************)
(* Utility helpers.  A row is a function from the column names it has to   *)
(* JavaScript values; no row has two columns equal up to letter case.      *)
(***************************************************************************)
RECURSIVE FirstHit(_, _, _)
FirstHit(row, candidates, i) ==
  IF i > Len(candidates) THEN Undef
  ELSE LET hits == { k \in DOMAIN row : LowerName(k) = LowerName(candidates[i]) }
       IN  IF hits # {} THEN row[CHOOSE k \in hits : TRUE]
           ELSE FirstHit(row, candidates, i + 1)

getField(row, candidates) ==
  LET direct == { k \in DOMAIN row : k \in Range(candidates) }
      found  == FirstHit(row, candidates, 1)
      anyHit == \E i \in DOMAIN candidates : \E k \in DOMAIN row :
                   LowerName(k) = LowerName(candidates[i])
  IN  IF anyHit THEN found
      ELSE IF direct # {} THEN row[CHOOSE k \in direct : TRUE]
      ELSE Undef

\* Number.isFinite(Number(v)) ? n : null
FiniteOrNull(n) == IF n.t = "num" THEN n ELSE Null

num(row, aliasList) == FiniteOrNull(JsNumber(getField(row, aliasList)))

DefaultPortion == 100

\* a portion resolver without the `explicit > 0` test
resolvePortionGrams_anyExplicit(row) ==
  LET explicit == num(row, A_serving_size_g)
  IN  IF Truthy(explicit) THEN explicit.n ELSE DefaultPortion

\* explicit && explicit > 0 ? explicit : 100
ExplicitOrDefault(explicit) ==
  IF Truthy(explicit) /\ explicit.n > 0 THEN explicit.n ELSE DefaultPortion

resolvePortionGrams(row) == ExplicitOrDefault(num(row, A_serving_size_g))

\* the global isFinite(x): true of null (coerced to 0) and of every number
\* num() can return
JsIsFinite(v) == JsNumber(v).t = "num"

\* x * scale with scale = portion_g / 100, in hundredths; null * scale is 0
Scaled(v, portion_g) ==
  IF JsIsFinite(v) THEN Num(JsNumber(v).n * portion_g) ELSE Null

\* isFinite(x) ? x : null
Unscaled(v) == IF JsIsFinite(v) THEN v ELSE Null

computeMacros(row, portion_g) ==
  [ calories  |-> Scaled(num(row, A_calories), portion_g),
    protein_g |-> Scaled(num(row, A_protein_g), portion_g),
    fiber_g   |-> Scaled(num(row, A_fiber_g), portion_g),
    carbs_g   |-> Scaled(num(row, A_carbs_g), portion_g),
    fat_g     |-> Scaled(num(row, A_fat_g), portion_g),
    gi        |-> Unscaled(num(row, A_gi)),
    gl        |-> Scaled(num(row, A_gl), portion_g),
    dii       |-> Unscaled(num(row, A_dii)) ]

(***************************************************************************)
(* normalizeIngredientLine                                                 *)
(***************************************************************************)
\* last index of the run of digits that starts at i (i - 1 when s[i] is
\* not a digit)
DigitRunEnd(s, i) ==
  LET others == { k \in i..Len(s) : s[k] \notin Digits }
  IN  IF others = {} THEN Len(s) ELSE Min(others) - 1

\* last index of the run of word characters that starts at i
WordRunEnd(s, i) ==
  LET others == { k \in i..Len(s) : s[k] \notin WordChars }
  IN  IF others = {} THEN Len(s) ELSE Min(others) - 1

\* \b just before position i, where s[i] is a word character
BoundaryBefore(s, i) == i = 1 \/ s[i - 1] \notin WordChars

\* \b just after position k, where s[k] is a word character
BoundaryAfter(s, k) == k = Len(s) \/ s[k + 1] \notin WordChars

\* /(\d+\/\d+)|[vulgar fractions]|\b\d+(\.\d+)?\b/ tried at position i: the last
\* index of the match, or 0 when the pattern does not match there
QuantityMatchEnd(s, i) ==
  LET j == DigitRunEnd(s, i)
      fracEnd == IF j >= i /\ j + 2 <= Len(s) /\ s[j + 1] = "/"
                   THEN DigitRunEnd(s, j + 2) ELSE 0
      decEnd  == IF j >= i /\ j + 2 <= Len(s) /\ s[j + 1] = "."
                   THEN DigitRunEnd(s, j + 2) ELSE 0
  IN  IF fracEnd >= j + 2 THEN fracEnd
      ELSE IF s[i] \in VulgarFractions THEN i
      ELSE IF j >= i /\ BoundaryBefore(s, i)
        THEN IF decEnd >= j + 2 /\ BoundaryAfter(s, decEnd) THEN decEnd
             ELSE IF BoundaryAfter(s, j) THEN j
             ELSE 0
      ELSE 0

\* s.replace(/(\d+\/\d+)|[vulgar fractions]|\b\d+(\.\d+)?\b/g, " ")
RECURSIVE StripQuantities(_, _)
StripQuantities(s, i) ==
  IF i > Len(s) THEN <<>>
  ELSE LET m == QuantityMatchEnd(s, i)
       IN  IF m > 0 THEN <<" ">> \o StripQuantities(s, m + 1)
           ELSE <<s[i]>> \o StripQuantities(s, i + 1)

UnitWords ==
  { <<"c","u","p","s">>,
    <<"c","u","p">>,
    <<"t","b","s","p">>,
    <<"t","a","b","l","e","s","p","o","o","n","s">>,
    <<"t","a","b","l","e","s","p","o","o","n">>,
    <<"t","b","s","p","s">>,
    <<"t","s","p">>,
    <<"t","e","a","s","p","o","o","n","s">>,
    <<"t","e","a","s","p","o","o","n">>,
    <<"t","s","p","s">>,
    <<"o","z">>,
    <<"o","u","n","c","e">>,
    <<"o","u","n","c","e","s">>,
    <<"g">>,
    <<"g","r","a","m","s">>,
    <<"g","r","a","m">>,
    <<"k","g">>,
    <<"k","i","l","o","g","r","a","m","s">>,
    <<"k","i","l","o","g","r","a","m">>,
    <<"m","l">>,
    <<"m","i","l","l","i","l","i","t","e","r","s">>,
    <<"m","i","l","l","i","l","i","t","e","r">>,
    <<"l","i","t","e","r">>,
    <<"l","i","t","r","e">>,
    <<"l","b","s">>,
    <<"l","b">>,
    <<"p","o","u","n","d","s">>,
    <<"p","o","u","n","d">> }

DescriptorWords ==
  { <<"c","h","o","p","p","e","d">>,
    <<"m","i","n","c","e","d">>,
    <<"d","i","c","e","d">>,
    <<"s","l","i","c","e","d">>,
    <<"g","r","o","u","n","d">>,
    <<"f","r","e","s","h">>,
    <<"l","a","r","g","e">>,
    <<"s","m","a","l","l">>,
    <<"m","e","d","i","u","m">>,
    <<"r","i","p","e">>,
    <<"r","a","w">>,
    <<"c","o","o","k","e","d">>,
    <<"d","r","a","i","n","e","d">>,
    <<"r","i","n","s","e","d">>,
    <<"p","a","c","k","e","d">>,
    <<"p","e","e","l","e","d">>,
    <<"s","e","e","d","e","d">> }

\* the descriptor "to taste", the only entry with a space in it
ToTaste == <<"t","o"," ","t","a","s","t","e">>

\* s.replace(/\b(w1|w2|...)\b/g, " ") for a vocabulary of whole words, and
\* of the phrases in `phrases`: every alternative is made of word
\* characters between two \b, so a match is a whole run of word characters
\* (or, for a phrase, runs joined by the single spaces of the phrase)
RECURSIVE StripVocabulary(_, _, _, _)
StripVocabulary(s, i, words, phrases) ==
  IF i > Len(s) THEN <<>>
  ELSE IF s[i] \in WordChars /\ BoundaryBefore(s, i)
    THEN LET j == WordRunEnd(s, i)
             long == { p \in phrases :
                         /\ i + Len(p) - 1 <= Len(s)
                         /\ SubSeq(s, i, i + Len(p) - 1) = p
                         /\ BoundaryAfter(s, i + Len(p) - 1) }
         IN  IF SubSeq(s, i, j) \in words
               THEN <<" ">> \o StripVocabulary(s, j + 1, words, phrases)
             ELSE IF long # {}
               THEN <<" ">> \o StripVocabulary(s, i + Len(CHOOSE p \in long : TRUE),
                                                words, phrases)
             ELSE SubSeq(s, i, j) \o StripVocabulary(s, j + 1, words, phrases)
  ELSE <<s[i]>> \o StripVocabulary(s, i + 1, words, phrases)

\* s.replace(/[^a-z\s\-]/g, " ")
StripNonLetters(s) ==
  [i \in 1..Len(s) |->
     IF s[i] \in LowerLetters \cup {" ", "-"} THEN s[i] ELSE " "]

\* s.replace(/\s+/g, " ")
RECURSIVE CollapseSpaces(_)
CollapseSpaces(s) ==
  IF s = <<>> THEN <<>>
  ELSE IF s[1] = " " /\ Len(s) > 1 /\ s[2] = " " THEN CollapseSpaces(Tail(s))
  ELSE <<s[1]>> \o CollapseSpaces(Tail(s))

\* a singularizer that drops the last letter of every phrase
Singularize_dropLast(s) == IF s = <<>> THEN s ELSE SubSeq(s, 1, Len(s) - 1)

\* if (s.endsWith("es")) s = s.slice(0, -2); else if (s.endsWith("s")) ...
Singularize(s) ==
  IF EndsWith(s, <<"e","s">>) THEN SubSeq(s, 1, Len(s) - 2)
  ELSE IF EndsWith(s, <<"s">>) THEN SubSeq(s, 1, Len(s) - 1)
  ELSE s

normalizeIngredientLine(line) ==
  Trim(Singularize(
    Trim(CollapseSpaces(
      StripNonLetters(
        StripVocabulary(
          StripVocabulary(Trim(StripQuantities(Lower(line), 1)), 1, UnitWords, {}),
          1, DescriptorWords, {ToTaste}))))))

(***************************************************************************)
(* extractIngredientsFromText.  A text is a sequence of characters; "\n"   *)
(* is the line feed and "\r" the carriage return.                          *)
(***************************************************************************)
\* a trailing carriage return belongs to the line break matched by /\r?\n/
DropCR(p) ==
  IF p # <<>> /\ p[Len(p)] = "\r" THEN SubSeq(p, 1, Len(p) - 1) ELSE p

\* String(text).split(/\r?\n/)
RECURSIVE SplitLines(_)
SplitLines(s) ==
  LET breaks == { i \in 1..Len(s) : s[i] = "\n" }
  IN  IF breaks = {} THEN <<s>>
      ELSE <<DropCR(SubSeq(s, 1, Min(breaks) - 1))>>
           \o SplitLines(SubSeq(s, Min(breaks) + 1, Len(s)))

\* .map(s => s.trim()).filter(Boolean)
TrimmedLines(parts) ==
  SelectSeq([i \in 1..Len(parts) |-> Trim(parts[i])], LAMBDA p : p # <<>>)

\* /^(w1|w2|...)\b/i.test(s)
StartsWithWord(s, words) ==
  \E w \in words :
    /\ StartsWith(Lower(s), w)
    /\ (Len(s) = Len(w) \/ s[Len(w) + 1] \notin WordChars)

\* /^ingredients\b/i
IsIngredientsHeader(s) == StartsWithWord(s, { <<"i","n","g","r","e","d","i","e","n","t","s">> })

TerminatorWords ==
  { <<"d","i","r","e","c","t","i","o","n","s">>,
    <<"i","n","s","t","r","u","c","t","i","o","n","s">>,
    <<"m","e","t","h","o","d">>,
    <<"s","t","e","p","s">> }

\* /^(directions|instructions|method|steps)\b/i
IsTerminator(s) == StartsWithWord(s, TerminatorWords)

\* the class [-*(bullet)\d.)\]] of the list-marker pattern
MarkerChars == {"-", "*", "bullet", ".", ")", "]"} \cup Digits

\* /^[-*(bullet)\d.)\]]\s*/.test(L)
HasMarker(L) == L # <<>> /\ L[1] \in MarkerChars

RECURSIVE DropLeadingSpaces(_)
DropLeadingSpaces(s) ==
  IF s # <<>> /\ s[1] = " " THEN DropLeadingSpaces(Tail(s)) ELSE s

\* L.replace(/^[-*(bullet)\d.)\]]\s*/, ""): one marker character and the
\* white space after it
StripMarker(L) == IF HasMarker(L) THEN DropLeadingSpaces(Tail(L)) ELSE L

MeasureWords ==
  { <<"c","u","p">>,
    <<"t","b","s","p">>,
    <<"t","s","p">>,
    <<"o","z">>,
    <<"g">>,
    <<"g","r","a","m">>,
    <<"m","l">>,
    <<"l","b">>,
    <<"t","e","a","s","p","o","o","n">>,
    <<"t","a","b","l","e","s","p","o","o","n">>,
    <<"o","u","n","c","e">>,
    <<"l","i","t","e","r">>,
    <<"l","i","t","r","e">> }

\* /cup|tbsp|tsp|oz|g|gram|ml|lb|teaspoon|tablespoon|ounce|liter|litre|cup/i
LooksMeasured(L) == \E w \in MeasureWords : Includes(Lower(L), w)

MetadataWords ==
  { <<"s","e","r","v","e","s">>,
    <<"s","e","r","v","i","n","g","s">>,
    <<"p","r","e","p"," ","t","i","m","e">>,
    <<"c","o","o","k"," ","t","i","m","e">>,
    <<"y","i","e","l","d">>,
    <<"n","u","t","r","i","t","i","o","n">> }

\* /serv(es|ings)|prep time|cook time|yield|nutrition/i
IsMetadata(L) == \E w \in MetadataWords : Includes(Lower(L), w)

\* L.split(" ").length
SplitLength(L) == Cardinality({ i \in 1..Len(L) : L[i] = " " }) + 1

MaxPhraseWords == 8

\* the loop over the lines from position i on
RECURSIVE takeLines(_, _)
takeLines(lines, i) ==
  IF i > Len(lines) THEN <<>>
  ELSE IF IsTerminator(lines[i]) THEN <<>>
  ELSE IF HasMarker(lines[i]) \/ LooksMeasured(lines[i])
    THEN <<Trim(StripMarker(lines[i]))>> \o takeLines(lines, i + 1)
  ELSE IF IsMetadata(lines[i]) THEN <<>>
  ELSE IF SplitLength(lines[i]) <= MaxPhraseWords
    THEN <<lines[i]>> \o takeLines(lines, i + 1)
  ELSE takeLines(lines, i + 1)

\* lines.findIndex(...) and the index the loop starts at (indices from 1):
\* the line after the first Ingredients header, the first line without one
firstLine(lines) ==
  LET headers == { i \in 1..Len(lines) : IsIngredientsHeader(lines[i]) }
  IN  IF headers = {} THEN 1 ELSE Min(headers) + 1

linesOut(lines) ==
  SelectSeq(takeLines(lines, firstLine(lines)), LAMBDA p : p # <<>>)

extractIngredientsFromText(text) ==
  IF text = <<>> THEN <<>> ELSE linesOut(TrimmedLines(SplitLines(text)))

(***************************************************************************)
(* Alias table, canonical universe and dataset index.  A JavaScript Map    *)
(* or Set is a sequence in insertion order without duplicate keys.         *)
(***************************************************************************)
MapHas(map, k) == \E i \in DOMAIN map : map[i].key = k

MapGet(map, k) == map[CHOOSE i \in DOMAIN map : map[i].key = k].val

SetAdd(seq, x) == IF x \in Range(seq) THEN seq ELSE Append(seq, x)

RECURSIVE buildAliasMapFrom(_, _, _)
buildAliasMapFrom(rows, i, acc) ==
  IF i > Len(rows) THEN acc
  ELSE LET alias     == getField(rows[i], A_alias)
           canonical == JsOr(getField(rows[i], A_canonical), alias)
           k == Lower(Trim(JsString(alias)))
           v == Trim(JsString(JsOr(canonical, Str(<<>>))))
       IN  IF ~Truthy(alias) \/ k = <<>> \/ v = <<>>
             THEN buildAliasMapFrom(rows, i + 1, acc)
           ELSE buildAliasMapFrom(rows, i + 1,
                  [ map |-> IF MapHas(acc.map, k) THEN acc.map
                            ELSE Append(acc.map, [key |-> k, val |-> v]),
                    canonicalSet |-> SetAdd(acc.canonicalSet, Lower(v)) ])

buildAliasMapFromRows(rows) ==
  buildAliasMapFrom(rows, 1, [map |-> <<>>, canonicalSet |-> <<>>])

\* (getField(r, A.canonical) || getField(r, [...]) || "").toString().trim()
CanonicalOf(r) ==
  Trim(JsString(JsOr(JsOr(getField(r, A_canonical), getField(r, KeyFallback)),
                     Str(<<>>))))

RECURSIVE canonicalUniverseFrom(_, _, _)
canonicalUniverseFrom(mainRows, i, acc) ==
  IF i > Len(mainRows) THEN acc
  ELSE LET c == Lower(CanonicalOf(mainRows[i]))
       IN  canonicalUniverseFrom(mainRows, i + 1,
             IF c # <<>> THEN SetAdd(acc, c) ELSE acc)

canonicalUniverseFromMain(mainRows) == canonicalUniverseFrom(mainRows, 1, <<>>)

RECURSIVE indexFrom(_, _, _)
indexFrom(rows, i, by) ==
  IF i > Len(rows) THEN by
  ELSE LET c == CanonicalOf(rows[i])
       IN  IF c = <<>> THEN indexFrom(rows, i + 1, by)
           ELSE IF MapHas(by, c)
             THEN indexFrom(rows, i + 1,
                    [j \in DOMAIN by |->
                       IF by[j].key = c
                         THEN [key |-> c, val |-> Append(by[j].val, rows[i])]
                         ELSE by[j]])
           ELSE indexFrom(rows, i + 1, Append(by, [key |-> c, val |-> <<rows[i]>>]))

indexByCanonical(rows) == indexFrom(rows, 1, <<>>)

(***************************************************************************)
(* mapToCanonical.  A confidence is a fraction <<numerator, denominator>>  *)
(* with a positive denominator.                                            *)
(***************************************************************************)
\* `tier` records which tier answered (1 exact alias, 2 suffix truncation,
\* 3 alias containment, 4 canonical universe); 0 stands for the null result
NoMatch == [found |-> FALSE, canonical |-> <<>>, confidence |-> <<0, 100>>, tier |-> 0]

Match(c, conf, tier) ==
  [found |-> TRUE, canonical |-> c, confidence |-> conf, tier |-> tier]

\* a > b on fractions
FracGT(a, b) == a[1] * b[2] > b[1] * a[2]

\* a >= b on fractions
FracGE(a, b) == a[1] * b[2] >= b[1] * a[2]

\* an exact alias lookup that reports the confidence of a suffix match
ExactAlias_asSuffix(norm, aliasMap) ==
  IF MapHas(aliasMap, norm) THEN Match(MapGet(aliasMap, norm), <<90, 100>>, 1)
  ELSE NoMatch

\* const direct = aliasMap.get(norm); if (direct) return {direct, 1.0}
ExactAlias(norm, aliasMap) ==
  IF MapHas(aliasMap, norm) THEN Match(MapGet(aliasMap, norm), <<100, 100>>, 1)
  ELSE NoMatch

\* for (let i = 0; i < parts.length; i++) { tail = parts.slice(i).join(" ") ... }
RECURSIVE SuffixFrom(_, _, _)
SuffixFrom(parts, i, aliasMap) ==
  IF i >= Len(parts) THEN NoMatch
  ELSE LET tail == JoinWords(SubSeq(parts, i + 1, Len(parts)))
       IN  IF MapHas(aliasMap, tail)
             THEN Match(MapGet(aliasMap, tail), <<90 - i * 5, 100>>, 2)
           ELSE SuffixFrom(parts, i + 1, aliasMap)

SuffixAlias(norm, aliasMap) == SuffixFrom(SplitWords(norm), 0, aliasMap)

\* for (const [alias, canon] of aliasMap.entries()) if (norm.includes(alias)) ...
AliasContainment(norm, aliasMap) ==
  LET hits == { i \in DOMAIN aliasMap : Includes(norm, aliasMap[i].key) }
  IN  IF hits = {} THEN NoMatch
      ELSE Match(aliasMap[Min(hits)].val, <<60, 100>>, 3)

\* Math.min(0.9, 0.55 + c.length / Math.max(8, norm.length))
ContainmentConfidence(norm, c) ==
  LET m == IF Len(norm) > 8 THEN Len(norm) ELSE 8
      raw == 55 * m + 100 * Len(c)
  IN  <<IF raw > 90 * m THEN 90 * m ELSE raw, 100 * m>>

RECURSIVE BestMain(_, _, _, _)
BestMain(norm, mainCanonLower, i, best) ==
  IF i > Len(mainCanonLower) THEN best
  ELSE LET c == mainCanonLower[i]
           conf == ContainmentConfidence(norm, c)
       IN  IF \/ norm = c
              \/ EndsWith(norm, <<" ">> \o c)
              \/ StartsWith(norm, c \o <<" ">>)
              \/ Includes(norm, c)
             THEN BestMain(norm, mainCanonLower, i + 1,
                    IF ~best.found \/ FracGT(conf, best.confidence)
                      THEN Match(c, conf, 4) ELSE best)
           ELSE BestMain(norm, mainCanonLower, i + 1, best)

\* fallback to main canonicals
MainUniverse(norm, mainCanonLower) ==
  IF norm \in Range(mainCanonLower) THEN Match(norm, <<95, 100>>, 4)
  ELSE BestMain(norm, mainCanonLower, 1, NoMatch)

RECURSIVE AliasUniverseFrom(_, _, _)
AliasUniverseFrom(norm, aliasCanonLower, i) ==
  IF i > Len(aliasCanonLower) THEN NoMatch
  ELSE IF norm = aliasCanonLower[i] THEN Match(aliasCanonLower[i], <<75, 100>>, 4)
  ELSE IF Includes(norm, aliasCanonLower[i])
    THEN Match(aliasCanonLower[i], <<65, 100>>, 4)
  ELSE AliasUniverseFrom(norm, aliasCanonLower, i + 1)

AliasUniverse(norm, aliasCanonLower) == AliasUniverseFrom(norm, aliasCanonLower, 1)

\* a resolver that consults the main canonical names before the alias table
mapToCanonical_mainFirst(norm, aliasMap, aliasCanonLower, mainCanonLower) ==
  IF norm = <<>> THEN NoMatch
  ELSE IF mainCanonLower # <<>> /\ MainUniverse(norm, mainCanonLower).found
    THEN MainUniverse(norm, mainCanonLower)
  ELSE IF aliasMap # <<>> /\ ExactAlias(norm, aliasMap).found
    THEN ExactAlias(norm, aliasMap)
  ELSE IF aliasMap # <<>> /\ SuffixAlias(norm, aliasMap).found
    THEN SuffixAlias(norm, aliasMap)
  ELSE IF aliasMap # <<>> /\ AliasContainment(norm, aliasMap).found
    THEN AliasContainment(norm, aliasMap)
  ELSE IF aliasCanonLower # <<>> /\ AliasUniverse(norm, aliasCanonLower).found
    THEN AliasUniverse(norm, aliasCanonLower)
  ELSE NoMatch

mapToCanonical(norm, aliasMap, aliasCanonLower, mainCanonLower) ==
  IF norm = <<>> THEN NoMatch
  ELSE IF aliasMap # <<>> /\ ExactAlias(norm, aliasMap).found
    THEN ExactAlias(norm, aliasMap)
  ELSE IF aliasMap # <<>> /\ SuffixAlias(norm, aliasMap).found
    THEN SuffixAlias(norm, aliasMap)
  ELSE IF aliasMap # <<>> /\ AliasContainment(norm, aliasMap).found
    THEN AliasContainment(norm, aliasMap)
  ELSE IF mainCanonLower # <<>> /\ MainUniverse(norm, mainCanonLower).found
    THEN MainUniverse(norm, mainCanonLower)
  ELSE IF aliasCanonLower # <<>> /\ AliasUniverse(norm, aliasCanonLower).found
    THEN AliasUniverse(norm, aliasCanonLower)
  ELSE NoMatch

(***************************************************************************)
(* buildAllTables: mapping of the names, per-ingredient rows and totals    *)
(***************************************************************************)
Unmapped == <<"U","n","m","a","p","p","e","d">>

\* for (const key of mainIdx.keys()) if (lower(key) === lower(canonical)) ...
harmonize(canonical, mainIdx) ==
  LET same == { j \in DOMAIN mainIdx : Lower(mainIdx[j].key) = Lower(canonical) }
  IN  IF same = {} THEN canonical ELSE mainIdx[Min(same)].key

\* mapped.push({ src: raw, canonical, confidence }) of one resolved phrase
mappedEntry(raw, m, mainIdx) ==
  IF m.found
    THEN [src |-> raw, canonical |-> Str(harmonize(m.canonical, mainIdx)),
          confidence |-> m.confidence]
  ELSE [src |-> raw, canonical |-> Null, confidence |-> <<0, 100>>]

\* one turn of the mapping loop: `if (!norm) continue;` and the push
mapName(raw, norm, aliasMap, aliasCanonLower, mainCanonLower, mainIdx) ==
  IF norm = <<>> THEN <<>>
  ELSE << mappedEntry(raw,
            mapToCanonical(norm, aliasMap, aliasCanonLower, mainCanonLower),
            mainIdx) >>

RECURSIVE mapNames(_, _, _, _, _, _)
mapNames(linesOrNames, i, aliasMap, aliasCanonLower, mainCanonLower, mainIdx) ==
  IF i > Len(linesOrNames) THEN <<>>
  ELSE mapName(linesOrNames[i], normalizeIngredientLine(linesOrNames[i]),
               aliasMap, aliasCanonLower, mainCanonLower, mainIdx)
       \o mapNames(linesOrNames, i + 1, aliasMap, aliasCanonLower,
                   mainCanonLower, mainIdx)

\* rows && rows.length ? rows[0] : null, as a sequence of zero or one row
mainRowOf(m, mainIdx) ==
  IF Truthy(m.canonical) /\ MapHas(mainIdx, m.canonical.s)
    THEN <<MapGet(mainIdx, m.canonical.s)[1]>>
  ELSE <<>>

NullMacros ==
  [ calories |-> Null, protein_g |-> Null, fiber_g |-> Null, carbs_g |-> Null,
    fat_g |-> Null, gi |-> Null, gl |-> Null, dii |-> Null ]

\* the row of a name without a record: all eight metrics null
unmeasuredRow(m) ==
  [ ingredient |-> m.src,
    canonical  |-> IF Truthy(m.canonical) THEN m.canonical.s ELSE Unmapped,
    portion_g  |-> Undef,
    mac        |-> NullMacros ]

\* the row of a name with a record: its portion and its scaled metrics
measuredRow(m, row, portion_g) ==
  [ ingredient |-> m.src,
    canonical  |-> m.canonical.s,
    portion_g  |-> Num(portion_g),
    mac        |-> computeMacros(row, portion_g) ]

rowFor(m, found) ==
  IF found = <<>> THEN unmeasuredRow(m)
  ELSE measuredRow(m, found[1], resolvePortionGrams(found[1]))

\* a row builder that fills the profile of a name without a record with zeros
ingredientRow_zeroFill(m, mainIdx) ==
  LET r == rowFor(m, mainRowOf(m, mainIdx))
  IN  IF r.portion_g.t = "num" THEN r
      ELSE [r EXCEPT !.mac = [ f \in DOMAIN NullMacros |-> Num(0) ]]

\* the row pushed on perIngredient for one mapped name
ingredientRow(m, mainIdx) == rowFor(m, mainRowOf(m, mainIdx))

ZeroTotals ==
  [ calories |-> 0, protein_g |-> 0, fiber_g |-> 0, carbs_g |-> 0, fat_g |-> 0,
    gl |-> 0, giWeightedCarb |-> 0, totalCarbForGI |-> 0,
    diiWeightedMass |-> 0, totalMassForDII |-> 0 ]

\* if (x != null) total += x
AddIf(sum, v) == IF v.t = "num" THEN sum + v.n ELSE sum

\* an accumulation that adds the carbs of a row to the fat total
accumulate_fatFromCarbs(acc, r) ==
  IF r.portion_g.t # "num" THEN acc
  ELSE [ calories  |-> AddIf(acc.calories, r.mac.calories),
         protein_g |-> AddIf(acc.protein_g, r.mac.protein_g),
         fiber_g   |-> AddIf(acc.fiber_g, r.mac.fiber_g),
         carbs_g   |-> AddIf(acc.carbs_g, r.mac.carbs_g),
         fat_g     |-> AddIf(acc.fat_g, r.mac.carbs_g),
         gl        |-> AddIf(acc.gl, r.mac.gl),
         giWeightedCarb |->
           IF r.mac.gi.t = "num" /\ r.mac.carbs_g.t = "num"
             THEN acc.giWeightedCarb + r.mac.gi.n * r.mac.carbs_g.n
             ELSE acc.giWeightedCarb,
         totalCarbForGI |->
           IF r.mac.gi.t = "num" /\ r.mac.carbs_g.t = "num"
             THEN acc.totalCarbForGI + r.mac.carbs_g.n
             ELSE acc.totalCarbForGI,
         diiWeightedMass |->
           IF r.mac.dii.t = "num" /\ r.portion_g.t = "num"
             THEN acc.diiWeightedMass + r.mac.dii.n * r.portion_g.n
             ELSE acc.diiWeightedMass,
         totalMassForDII |->
           IF r.mac.dii.t = "num" /\ r.portion_g.t = "num"
             THEN acc.totalMassForDII + r.portion_g.n
             ELSE acc.totalMassForDII ]

\* the body of `for (const m of mapped)` after the row is pushed
accumulate(acc, r) ==
  IF r.portion_g.t # "num" THEN acc
  ELSE [ calories  |-> AddIf(acc.calories, r.mac.calories),
         protein_g |-> AddIf(acc.protein_g, r.mac.protein_g),
         fiber_g   |-> AddIf(acc.fiber_g, r.mac.fiber_g),
         carbs_g   |-> AddIf(acc.carbs_g, r.mac.carbs_g),
         fat_g     |-> AddIf(acc.fat_g, r.mac.fat_g),
         gl        |-> AddIf(acc.gl, r.mac.gl),
         giWeightedCarb |->
           IF r.mac.gi.t = "num" /\ r.mac.carbs_g.t = "num"
             THEN acc.giWeightedCarb + r.mac.gi.n * r.mac.carbs_g.n
             ELSE acc.giWeightedCarb,
         totalCarbForGI |->
           IF r.mac.gi.t = "num" /\ r.mac.carbs_g.t = "num"
             THEN acc.totalCarbForGI + r.mac.carbs_g.n
             ELSE acc.totalCarbForGI,
         diiWeightedMass |->
           IF r.mac.dii.t = "num" /\ r.portion_g.t = "num"
             THEN acc.diiWeightedMass + r.mac.dii.n * r.portion_g.n
             ELSE acc.diiWeightedMass,
         totalMassForDII |->
           IF r.mac.dii.t = "num" /\ r.portion_g.t = "num"
             THEN acc.totalMassForDII + r.portion_g.n
             ELSE acc.totalMassForDII ]

RECURSIVE totalsOver(_, _)
totalsOver(rows, n) ==
  IF n = 0 THEN ZeroTotals ELSE accumulate(totalsOver(rows, n - 1), rows[n])

\* den > 0 ? num / den : null, the quotient kept as a fraction
ratioOrNull(numer, den) ==
  IF den > 0 THEN [isNull |-> FALSE, n |-> numer, d |-> den]
  ELSE [isNull |-> TRUE, n |-> 0, d |-> 1]

TableTitles ==
  << "Nutrition", "Cognitive & Other Health Benefits", "Diet Compatibility",
     "Microbiome Benefit", "Micronutrient Benefits" >>

\* the object of the values the tables are rendered from
reportOf(mapped, perIngredient, total) ==
  [ mapped        |-> mapped,
    perIngredient |-> perIngredient,
    total         |-> total,
    overallGI     |-> ratioOrNull(total.giWeightedCarb, total.totalCarbForGI),
    overallDII    |-> ratioOrNull(total.diiWeightedMass, total.totalMassForDII) ]

\* the totals of the rows, then the overall values
aggregate(mapped, perIngredient) ==
  reportOf(mapped, perIngredient, totalsOver(perIngredient, Len(perIngredient)))

\* for (const m of mapped): one row per mapped name
rowsOf(mapped, mainIdx) ==
  aggregate(mapped, [i \in 1..Len(mapped) |-> ingredientRow(mapped[i], mainIdx)])

tablesFrom(linesOrNames, mainIdx, aliasMap, aliasCanonLower, mainCanonLower) ==
  rowsOf(mapNames(linesOrNames, 1, aliasMap, aliasCanonLower, mainCanonLower,
                  mainIdx),
         mainIdx)

(***************************************************************************)
(* Table 3: Diet Compatibility                                             *)
(***************************************************************************)
\* CONFIG.FIELD_ALIASES.diet_tags
diet_tags ==
  << "MIND", "DASH", "Mediterranean", "Vegan", "Vegetarian", "Pescatarian",
     "Gluten-Free", "Keto", "Paleo", "Low-FODMAP" >>

\* dietAny.length ? Object.keys(dietAny[0]) : []
dietHeadersOf(dietAny) == IF dietAny = <<>> THEN {} ELSE DOMAIN dietAny[1]

\* diet_tags.filter(col => dietHeaders.some(h => h.toLowerCase() === col.toLowerCase()))
knownDietColsOf(dietHeaders) ==
  SelectSeq(diet_tags,
            LAMBDA col : \E h \in dietHeaders : LowerName(h) = LowerName(col))

\* String(v || "").trim().toLowerCase()
dietValue(v) == Lower(Trim(JsString(JsOr(v, Str(<<>>)))))

\* vStr === "y" || vStr === "yes" || vStr === "true" || vStr === "1"
isYes(vStr) == vStr \in { <<"y">>, <<"y","e","s">>, <<"t","r","u","e">>, <<"1">> }

\* dietIdx.get(r.canonical || "") || []
dietRowsOf(r, dietIdx) ==
  IF MapHas(dietIdx, r.canonical) THEN MapGet(dietIdx, r.canonical) ELSE <<>>

NoFlags == [ anyNo |-> FALSE, anyUnknown |-> FALSE, offenders |-> <<>> ]

\* one turn of `for (const r of perIngredient)` on a value of the diet column
flagValue(flags, r, vStr) ==
  IF vStr = <<>> THEN [flags EXCEPT !.anyUnknown = TRUE]
  ELSE IF isYes(vStr) THEN flags
  ELSE [flags EXCEPT !.anyNo = TRUE, !.offenders = Append(@, r.ingredient)]

\* one turn of `for (const r of perIngredient)`
flagRow(flags, r, rows, dietName) ==
  IF rows = <<>> THEN [flags EXCEPT !.anyUnknown = TRUE]
  ELSE flagValue(flags, r, dietValue(getField(rows[1], <<dietName>>)))

RECURSIVE dietFlags(_, _, _, _)
dietFlags(perIngredient, n, dietIdx, dietName) ==
  IF n = 0 THEN NoFlags
  ELSE flagRow(dietFlags(perIngredient, n - 1, dietIdx, dietName),
               perIngredient[n], dietRowsOf(perIngredient[n], dietIdx), dietName)

MaxOffenders == 5

\* offenders.slice(0,5)
firstOffenders(offenders) ==
  SubSeq(offenders, 1, Min({MaxOffenders, Len(offenders)}))

\* t3Rows.push([dietName, compat, notes || ""]); the notes are kept as their
\* fixed text and the names joined after it
verdictRow(dietName, flags) ==
  IF flags.anyNo
    THEN [ diet |-> dietName, compat |-> "No",
           notes |-> IF flags.offenders # <<>> THEN "Swap: " ELSE "",
           names |-> firstOffenders(flags.offenders) ]
  ELSE IF flags.anyUnknown
    THEN [ diet |-> dietName, compat |-> "Likely",
           notes |-> "Some ingredients unknown", names |-> <<>> ]
  ELSE [ diet |-> dietName, compat |-> "Yes", notes |-> "", names |-> <<>> ]

\* the row of a diet dataset without a diet tag column
NoDietColumns ==
  [ diet |-> "-", compat |-> "-",
    notes |-> "No diet tag columns detected in data", names |-> <<>> ]

dietRowsFor(perIngredient, dietIdx, knownDietCols) ==
  IF knownDietCols = <<>> THEN << NoDietColumns >>
  ELSE [ k \in 1..Len(knownDietCols) |->
           verdictRow(knownDietCols[k],
                      dietFlags(perIngredient, Len(perIngredient), dietIdx,
                                knownDietCols[k])) ]

\* t3Rows of a request
dietTable(perIngredient, dietAny) ==
  dietRowsFor(perIngredient, indexByCanonical(dietAny),
              knownDietColsOf(dietHeadersOf(dietAny)))

\* the values of Table 1 and the rows of Table 3
withDietTable(nutrition, dietAny) ==
  [ mapped        |-> nutrition.mapped,
    perIngredient |-> nutrition.perIngredient,
    total         |-> nutrition.total,
    overallGI     |-> nutrition.overallGI,
    overallDII    |-> nutrition.overallDII,
    diet          |-> dietTable(nutrition.perIngredient, dietAny) ]

buildAllTables(linesOrNames, datasets, aliasMap, aliasCanonLower, mainCanonLower) ==
  withDietTable(
    tablesFrom(linesOrNames, indexByCanonical(datasets.main), aliasMap,
               aliasCanonLower, mainCanonLower),
    datasets.diet)
(***************************************************************************)
(* Bounds and input families                                               *)
(***************************************************************************)
\* most names checked on the page for one request
MaxLines == 3

\* most filler words in front of a resolver phrase
MaxLead == 20

\* most rows of settings_global.csv in a resolver session
MaxAliases == 2

\* all sequences of at most n elements of S
RECURSIVE SeqsUpTo(_, _)
SeqsUpTo(S, n) ==
  IF n = 0 THEN {<<>>}
  ELSE SeqsUpTo(S, n - 1) \cup
       { Append(q, x) : q \in { p \in SeqsUpTo(S, n - 1) : Len(p) = n - 1 }, x \in S }

\* ---- the names that can be checked on the page -------------------------
RawKale == <<"K","a","l","e">>

RawQuantity == <<"2"," ","c","u","p","s">>

RawEvoo == <<"e","v","o","o">>

RawOils == <<"f","r","e","s","h"," ","o","i","l","s">>

RawNames == { RawKale, RawQuantity, RawEvoo, RawOils }

CheckedLists == SeqsUpTo(RawNames, MaxLines)

\* ---- mapping_nutrition.csv ----------------------------------------------
KaleName == <<"K","a","l","e">>

OilName == <<"O","i","l">>

Text == Str(<<"n","/","a">>)

\* a cell of a nutrient column: no such column, empty cell, text, number
Cells(x) == { Undef, Null, Text, Num(x) }

\* a row from its cells; a column whose cell is Undef is not in the row
MakeRow(cells) == [ k \in { c \in DOMAIN cells : cells[c] # Undef } |-> cells[k] ]

KaleBase ==
  [ Ingredient |-> Str(KaleName), calories |-> Num(200), protein_g |-> Num(10),
    fibre |-> Num(4), carbs |-> Num(20), fat |-> Num(5), GI |-> Num(50),
    GL |-> Num(8), DII |-> Num(0 - 2), serving_size_g |-> Undef ]

OilBase ==
  [ Ingredient |-> Str(OilName), calories |-> Num(100), protein_g |-> Num(1),
    fibre |-> Num(2), carbs |-> Num(10), fat |-> Num(9), GI |-> Num(70),
    GL |-> Num(3), DII |-> Num(3), serving_size_g |-> Num(50) ]

ServingCells == { Undef, Null, Num(0 - 50), Num(250) }

\* the kale record: carbs and GI vary together, DII and serving size vary
\* together, each other nutrient varies alone
KaleRows ==
  { MakeRow([KaleBase EXCEPT !.carbs = c, !.GI = g]) :
      c \in Cells(20), g \in Cells(50) }
  \cup
  { MakeRow([KaleBase EXCEPT !.DII = d, !.serving_size_g = s]) :
      d \in Cells(0 - 2), s \in ServingCells }
  \cup
  { MakeRow([KaleBase EXCEPT ![f] = c]) :
      f \in {"calories", "protein_g", "fibre", "fat", "GL"}, c \in Cells(40) }

OilRows ==
  { MakeRow(OilBase),
    MakeRow([OilBase EXCEPT !.GI = Null]),
    MakeRow([OilBase EXCEPT !.DII = Null]),
    MakeRow([OilBase EXCEPT !.calories = Undef, !.serving_size_g = Null]) }

\* ---- settings_global.csv ------------------------------------------------
EvooAlias == [ alias |-> Str(RawEvoo), canonical |-> Str(OilName) ]

SettingsFiles == { <<>>, <<EvooAlias>> }

\* a page without recipe text
NoPage == [ elements |-> <<>>, body |-> <<>> ]

\* six empty files
NoFiles ==
  [ settings |-> <<>>, main |-> <<>>, benefits |-> <<>>, diet |-> <<>>,
    microbiome |-> <<>>, micronutrients |-> <<>> ]

\* the files of one load
Files(st, k, o) ==
  [ settings |-> st, main |-> <<k, o>>, benefits |-> <<>>, diet |-> <<>>,
    microbiome |-> <<>>, micronutrients |-> <<>> ]

\* what loadDatasets can resolve with: every kale record beside the plain
\* oil record and the alias, and every oil record and settings file beside
\* the plain kale record and the kale record with a serving size
Datasets ==
  { Files(<<EvooAlias>>, k, MakeRow(OilBase)) : k \in KaleRows }
  \cup
  { Files(st, k, o) :
      st \in SettingsFiles,
      k \in { MakeRow(KaleBase),
              MakeRow([KaleBase EXCEPT !.serving_size_g = Num(250)]) },
      o \in OilRows }

\* ---- the files under CSV_BASE_URL ---------------------------------------
\* a file the server answers with, and a file whose fetch or parse fails
Served(rows) == [ ok |-> TRUE, rows |-> rows ]

Unavailable == [ ok |-> FALSE, rows |-> <<>> ]

ServerOf(files) == [ f \in DOMAIN files |-> Served(files[f]) ]

\* the nutrition files, and one server without mapping_nutrition.csv
NutritionServers ==
  { ServerOf(d) : d \in Datasets }
  \cup { [ServerOf(NoFiles) EXCEPT !.main = Unavailable] }

\* ---- resolver sessions --------------------------------------------------
Filler == <<"x">>

\* n copies of the filler word, each followed by a space
RECURSIVE Lead(_)
Lead(n) == IF n = 0 THEN <<>> ELSE Filler \o <<" ">> \o Lead(n - 1)

PhraseTails == << <<"a">>, <<"b">>, <<"a","b">>, <<"a"," ","b">>, <<"b"," ","a">>, <<"x">> >>

NumPhrases == (MaxLead + 1) * Len(PhraseTails)

\* the i-th phrase of a session, i in 0..NumPhrases-1
PhraseAt(i) == Lead(i \div Len(PhraseTails)) \o PhraseTails[(i % Len(PhraseTails)) + 1]

AliasKeys == { <<"a">>, <<"b">>, <<"a"," ","b">> }

AliasTargets == { <<"B">> }

AliasRows == { [ alias |-> Str(k), canonical |-> Str(v) ] : k \in AliasKeys, v \in AliasTargets }

SessionSettings ==
  { q \in SeqsUpTo(AliasRows, MaxAliases) :
      \A i, j \in DOMAIN q : i # j => q[i].alias # q[j].alias }

MainNames == { <<"A">>, <<"a","b">>, <<"b">> }

SessionMains ==
  { [ i \in DOMAIN q |-> [ Ingredient |-> Str(q[i]) ] ] :
      q \in { p \in SeqsUpTo(MainNames, 2) : \A i, j \in DOMAIN p : i # j => p[i] # p[j] } }


\* ---- mapping_diet.csv ----------------------------------------------------
\* a cell of a diet column: a yes, a no, blank text, the numbers and the
\* booleans dynamicTyping makes of 1, 0, TRUE and FALSE, an empty cell, and
\* no cell
DietCells ==
  { Str(<<"Y","e","s">>), Str(<<"n","o">>), Str(<<" ">>), Num(1), Num(0), Bool(TRUE), Bool(FALSE),
    Null, Undef }

DietRow(name, keto, vegan) ==
  MakeRow([ Ingredient |-> Str(name), Keto |-> keto, Vegan |-> vegan ])

\* a file that spells kale in capitals
UpperKaleDiet == << DietRow(<<"K","A","L","E">>, Str(<<"n","o">>), Str(<<"Y","e","s">>)) >>

\* a file with two records for kale: the first has an empty cell under Keto,
\* the second a no
TwoKaleDiet ==
  << DietRow(KaleName, Null, Str(<<"Y","e","s">>)),
     DietRow(KaleName, Str(<<"n","o">>), Str(<<"Y","e","s">>)) >>

\* a file with the columns Canonical and Ingredient: the record of kale has
\* an empty cell under Canonical
TwoKeyColumnsDiet ==
  << MakeRow([ Canonical |-> Str(OilName), Ingredient |-> Str(OilName),
               Keto |-> Str(<<"Y","e","s">>), Vegan |-> Str(<<"Y","e","s">>) ]),
     MakeRow([ Canonical |-> Null, Ingredient |-> Str(KaleName),
               Keto |-> Str(<<"n","o">>), Vegan |-> Str(<<"Y","e","s">>) ]) >>

\* kale with every cell under Keto, oil with a yes or a no; a file without
\* a row for oil; a file without a diet column
DietFiles ==
  { << DietRow(KaleName, k, Str(<<"Y","e","s">>)), DietRow(OilName, o, Str(<<"Y","e","s">>)) >> :
      k \in DietCells, o \in { Str(<<"Y","e","s">>), Str(<<"n","o">>) } }
  \cup { << DietRow(KaleName, Str(<<"n","o">>), Str(<<"Y","e","s">>)) >>,
         << MakeRow([ Ingredient |-> Str(KaleName) ]) >> }
  \cup { UpperKaleDiet, TwoKaleDiet, TwoKeyColumnsDiet }

RawQuinoa == <<"Q","u","i","n","o","a">>

RawOil == <<"O","i","l">>

DietNames == { RawKale, RawOil, RawQuinoa, RawQuantity }

\* the files of a load with a diet file
DietServer(diet) ==
  ServerOf([ Files(<<>>, MakeRow(KaleBase), MakeRow(OilBase)) EXCEPT !.diet = diet ])

\* what is on the page for a request: the checked names, the pasted text,
\* and the elements and body of the document
PageInput(names, text, page) == [ checked |-> names, pasted |-> text, dom |-> page ]

DietPages ==
  { [ server |-> DietServer(d), input |-> PageInput(names, <<>>, NoPage) ] :
      d \in DietFiles, names \in SeqsUpTo(DietNames, MaxLines) \ {<<>>} }

\* ---- pages with failing or unusable files --------------------------------
GoodServer ==
  DietServer(<< DietRow(KaleName, Str(<<"Y","e","s">>), Str(<<"Y","e","s">>)),
                DietRow(OilName, Str(<<"n","o">>), Str(<<"Y","e","s">>)) >>)

FileNames == { "settings", "main", "benefits", "diet", "microbiome", "micronutrients" }

\* rows whose only column is no key column of FIELD_ALIASES.canonical
NoKeyRows == << [ label |-> Str(KaleName) ], [ label |-> Str(OilName) ] >>

FailingServers ==
  { GoodServer }
  \cup { [ GoodServer EXCEPT ![f] = Unavailable ] : f \in FileNames }
  \cup { [ GoodServer EXCEPT ![f] = Unavailable, !.settings = Unavailable ] :
           f \in FileNames }
  \cup { [ GoodServer EXCEPT ![f] = Served(NoKeyRows) ] : f \in { "main", "diet" } }

RawGptChooses == <<"G","P","T"," ","c","h","o","o","s","e","s"," ","f","o","r"," ","m","e">>

PageNames == { <<>>, << RawKale >>, << RawGptChooses >>, << RawKale, RawOil >> }

PageTexts ==
  { <<>>, <<"K","a","l","e","\n","2"," ","c","u","p","s"," ","O","i","l">>, <<"D","i","r","e","c","t","i","o","n","s","\n","K","a","l","e">> }

PageDoms ==
  { NoPage,
    [ elements |-> << <<"D","i","r","e","c","t","i","o","n","s">>, <<"-"," ","K","a","l","e">> >>, body |-> <<>> ],
    [ elements |-> <<>>, body |-> <<"O","i","l">> ],
    [ elements |-> << <<"M","e","t","h","o","d">> >>, body |-> <<"S","t","e","p","s">> ] }

FailingPages ==
  { [ server |-> srv, input |-> PageInput(names, text, page) ] :
      srv \in FailingServers, names \in PageNames, text \in PageTexts,
      page \in PageDoms }

\* ---- recipe texts --------------------------------------------------------
\* most lines of a recipe text
MaxTextLines == 3

\* a header, a list item, a line that starts with a quantity, two metadata
\* lines, a terminator header, two bare names, a plural unit, and a line of nine
\* words
TextLines ==
  { <<"I","n","g","r","e","d","i","e","n","t","s",":">>,
    <<"-"," ","2"," ","c","u","p","s"," ","k","a","l","e">>,
    <<"1","2"," ","e","g","g","s">>,
    <<"S","e","r","v","i","n","g","s",":"," ","4">>,
    <<"S","t","e","p","s">>,
    <<"k","a","l","e">>,
    <<"S","e","r","v","e","s"," ","4">>,
    <<"g","l","a","s","s","e","s">>,
    <<"3"," ","k","g","s">>,
    <<"a"," ","b"," ","c"," ","d"," ","e"," ","f"," ","h"," ","i"," ","j">> }

RECURSIVE JoinLines(_)
\* phrases.join("\n")
JoinLines(phrases) ==
  IF phrases = <<>> THEN <<>>
  ELSE IF Len(phrases) = 1 THEN phrases[1]
  ELSE phrases[1] \o <<"\n">> \o JoinLines(Tail(phrases))

RecipeTexts == { JoinLines(q) : q \in SeqsUpTo(TextLines, MaxTextLines) }

(***************************************************************************)
(* The v1 loader (src/assets/nutrition-tables.js): the datasets are loaded *)
(* once, in the order of CSV_SOURCES, and merged into State; cells are     *)
(* strings (dynamicTyping:false); a row maps column names to cells.        *)
(***************************************************************************)
KeyColumns == << <<"I","n","g","r","e","d","i","e","n","t">>, <<"F","o","o","d">>, <<"I","t","e","m">> >>

CSV_SOURCES ==
  << [ name |-> "nutrition", keyCandidates |-> << <<"I","n","g","r","e","d","i","e","n","t">>, <<"F","o","o","d">>, <<"I","t","e","m">> >>, optional |-> FALSE ],
     [ name |-> "gi_gl", keyCandidates |-> << <<"I","n","g","r","e","d","i","e","n","t">>, <<"F","o","o","d">>, <<"I","t","e","m">> >>, optional |-> FALSE ],
     [ name |-> "dii", keyCandidates |-> << <<"I","n","g","r","e","d","i","e","n","t">>, <<"F","o","o","d">>, <<"I","t","e","m">> >>, optional |-> FALSE ],
     [ name |-> "cog", keyCandidates |-> << <<"I","n","g","r","e","d","i","e","n","t">>, <<"F","o","o","d">>, <<"I","t","e","m">> >>, optional |-> FALSE ],
     [ name |-> "diet", keyCandidates |-> << <<"I","n","g","r","e","d","i","e","n","t">>, <<"F","o","o","d">>, <<"I","t","e","m">> >>, optional |-> FALSE ],
     [ name |-> "micro", keyCandidates |-> << <<"I","n","g","r","e","d","i","e","n","t">>, <<"F","o","o","d">>, <<"I","t","e","m">> >>, optional |-> FALSE ],
     [ name |-> "micros", keyCandidates |-> << <<"I","n","g","r","e","d","i","e","n","t">>, <<"F","o","o","d">>, <<"I","t","e","m">> >>, optional |-> FALSE ],
     [ name |-> "synonyms", keyCandidates |-> << <<"A","l","i","a","s">> >>, optional |-> TRUE ] >>

\* the characters of the class of stripPunct; the grave accent is the
\* character named "backtick"
PunctChars ==
  { "(", ")", "[", "]", "{", "}", ".", ",", "/", "!", "?", ":", ";", "\"", "'",
    "backtick", "~" }

\* every character of PunctChars replaced by a space
stripPunct(s) == [ i \in 1..Len(s) |-> IF s[i] \in PunctChars THEN " " ELSE s[i] ]

\* stripPunct(String(s||'').toLowerCase()).replace(/\s+/g,' ').trim()
normalize(s) == Trim(CollapseSpaces(stripPunct(Lower(s))))

SYNONYMS ==
  (<<"e","v","o","o">> :> <<"o","l","i","v","e"," ","o","i","l"," ","(","e","x","t","r","a"," ","v","i","r","g","i","n",")">>) @@
  (<<"e","x","t","r","a"," ","v","i","r","g","i","n"," ","o","l","i","v","e"," ","o","i","l">> :> <<"o","l","i","v","e"," ","o","i","l"," ","(","e","x","t","r","a"," ","v","i","r","g","i","n",")">>) @@
  (<<"a","v","o","c","a","d","o"," ","o","i","l"," ","(","c","o","l","d"," ","p","r","e","s","s","e","d",")">> :> <<"a","v","o","c","a","d","o"," ","o","i","l">>) @@
  (<<"t","o","m","a","t","o","e","s">> :> <<"t","o","m","a","t","o">>) @@
  (<<"s","t","r","a","w","b","e","r","r","i","e","s">> :> <<"s","t","r","a","w","b","e","r","r","y">>) @@
  (<<"e","g","g","s">> :> <<"e","g","g">>) @@
  (<<"w","a","l","n","u","t","s">> :> <<"w","a","l","n","u","t">>) @@
  (<<"a","l","m","o","n","d","s">> :> <<"a","l","m","o","n","d">>) @@
  (<<"c","h","i","c","k","p","e","a"," ","p","a","s","t","a">> :> <<"p","a","s","t","a"," ","(","c","h","i","c","k","p","e","a",")">>) @@
  (<<"w","h","o","l","e","g","r","a","i","n"," ","p","a","s","t","a">> :> <<"p","a","s","t","a"," ","(","w","h","o","l","e"," ","g","r","a","i","n",")">>) @@
  (<<"s","o","u","r","d","o","u","g","h"," ","p","a","s","t","a">> :> <<"p","a","s","t","a"," ","(","s","o","u","r","d","o","u","g","h",")">>) @@
  (<<"c","h","e","d","d","a","r"," ","c","h","e","e","s","e">> :> <<"c","h","e","d","d","a","r">>) @@
  (<<"p","a","r","m","i","g","i","a","n","o"," ","r","e","g","g","i","a","n","o">> :> <<"p","a","r","m","e","s","a","n">>)

\* the cell of a column; a missing column reads as undefined, which every
\* test of the loader treats as the empty string
Cell(row, col) == IF col \in DOMAIN row THEN row[col] ELSE <<>>

\* the first candidate present among the columns; the loose match is the
\* column whose normalized name is "ingredient" (rows of the model carry at
\* most one such column); null is the empty name, `!keyCol` holds for both
RECURSIVE firstCandidate(_, _, _)
firstCandidate(cols, candidates, i) ==
  IF i > Len(candidates) THEN <<>>
  ELSE IF candidates[i] \in cols THEN candidates[i]
  ELSE firstCandidate(cols, candidates, i + 1)

looseColumns(cols) == { c \in cols : normalize(c) = <<"i","n","g","r","e","d","i","e","n","t">> }

chooseKeyColumn(row, candidates) ==
  IF firstCandidate(DOMAIN row, candidates, 1) # <<>>
    THEN firstCandidate(DOMAIN row, candidates, 1)
  ELSE IF looseColumns(DOMAIN row) # {} THEN CHOOSE c \in looseColumns(DOMAIN row) : TRUE
  ELSE <<>>

\* Map.prototype.set
MapSet(m, k, v) == [ x \in (DOMAIN m) \cup {k} |-> IF x = k THEN v ELSE m[x] ]

\* State.synonymsDynamic after addSynonym(alias, canonical)
addSynonym(synonymsDynamic, alias, canonical) ==
  IF alias = <<>> \/ canonical = <<>> THEN synonymsDynamic
  ELSE MapSet(synonymsDynamic, normalize(alias), normalize(canonical))

\* the second half of canonicalizeName, n = normalize(raw)
canonicalOf(synonymsDynamic, n) ==
  IF n \in DOMAIN synonymsDynamic THEN synonymsDynamic[n]
  ELSE IF n \in DOMAIN SYNONYMS THEN normalize(SYNONYMS[n])
  ELSE n

canonicalizeName(synonymsDynamic, raw) == canonicalOf(synonymsDynamic, normalize(raw))

\* State.keyToDisplay after recordDisplayName(key, display)
recordDisplayName(keyToDisplay, key, display) ==
  IF key \in DOMAIN keyToDisplay THEN keyToDisplay
  ELSE MapSet(keyToDisplay, key, IF display = <<>> THEN key ELSE display)

\* the columns of a row that mergeRecord writes into rec
writtenColumns(rec, row) ==
  { k \in DOMAIN row : row[k] # <<>> /\ (k \notin DOMAIN rec \/ Trim(rec[k]) = <<>>) }

\* the record after the loop of mergeRecord: the first non-empty cell of a
\* column is kept
mergedColumns(rec, row) ==
  [ k \in (DOMAIN rec) \cup writtenColumns(rec, row) |->
      IF k \in writtenColumns(rec, row) THEN row[k] ELSE rec[k] ]

\* a merge in which the last non-empty cell of a column is kept
mergeRecord_lastWins(dataByKey, key, row) ==
  MapSet(dataByKey, key,
         [ k \in (IF key \in DOMAIN dataByKey THEN DOMAIN dataByKey[key] ELSE {})
                 \cup { c \in DOMAIN row : row[c] # <<>> } |->
             IF k \in DOMAIN row /\ row[k] # <<>> THEN row[k] ELSE dataByKey[key][k] ])

\* State.dataByKey after mergeRecord(datasetName, key, row); a record is the
\* map of its columns, its _key is the key it is stored under
mergeRecord(dataByKey, key, row) ==
  MapSet(dataByKey, key,
         mergedColumns(IF key \in DOMAIN dataByKey THEN dataByKey[key] ELSE <<>>, row))

NoLoadError == [ set |-> FALSE, dataset |-> "", reason |-> "" ]

\* the State object of the script
StateInit ==
  [ ready |-> FALSE, dataByKey |-> <<>>, keyToDisplay |-> <<>>,
    keyColByDataset |-> <<>>, synonymsDynamic |-> <<>>, loadError |-> NoLoadError ]

\* for (const r of rows) addSynonym(r[keyCol], r['Canonical'])
RECURSIVE addSynonyms(_, _, _, _)
addSynonyms(synonymsDynamic, rows, keyCol, i) ==
  IF i > Len(rows) THEN synonymsDynamic
  ELSE addSynonyms(
         addSynonym(synonymsDynamic, Cell(rows[i], keyCol), Cell(rows[i], <<"C","a","n","o","n","i","c","a","l">>)),
         rows, keyCol, i + 1)

\* one iteration of the merging loop, for a row with a key
mergeRow(st, rawKey, row) ==
  [ st EXCEPT
      !.keyToDisplay =
        recordDisplayName(st.keyToDisplay,
                          canonicalizeName(st.synonymsDynamic, rawKey), rawKey),
      !.dataByKey =
        mergeRecord(st.dataByKey, canonicalizeName(st.synonymsDynamic, rawKey), row) ]

\* for (const r of rows) { const rawKey = r[keyCol]; if (!rawKey) continue; ... }
RECURSIVE mergeRows(_, _, _, _)
mergeRows(st, rows, keyCol, i) ==
  IF i > Len(rows) THEN st
  ELSE IF Cell(rows[i], keyCol) = <<>> THEN mergeRows(st, rows, keyCol, i + 1)
  ELSE mergeRows(mergeRow(st, Cell(rows[i], keyCol), rows[i]), rows, keyCol, i + 1)

\* why the body of the inner try throws for a file, "" when it does not
sourceError(cfg, file) ==
  IF ~file.ok THEN "Failed to fetch"
  ELSE IF file.rows = <<>> THEN (IF cfg.optional THEN "" ELSE "No data rows")
  ELSE IF chooseKeyColumn(file.rows[1], cfg.keyCandidates) = <<>>
    THEN "Cannot find key column"
  ELSE ""

\* State after the body of the inner try ran to its end for a file
sourceMergedInto(st, cfg, rows, keyCol) ==
  IF cfg.name = "synonyms"
    THEN [ st EXCEPT !.keyColByDataset = MapSet(@, cfg.name, keyCol),
                     !.synonymsDynamic = addSynonyms(@, rows, keyCol, 1) ]
  ELSE mergeRows([ st EXCEPT !.keyColByDataset = MapSet(@, cfg.name, keyCol) ],
                 rows, keyCol, 1)

\* ---- rendering ----------------------------------------------------------
CardTitles ==
  << "Nutrition Table", "Cognitive & Other Health Benefits", "Diet Compatibility",
     "Microbiome Benefit", "Micronutrient Benefits" >>

\* (ingredients||[]).map(s=>canonicalizeName(s)).filter(Boolean)
RECURSIVE requestedKeys(_, _, _)
requestedKeys(synonymsDynamic, ingredients, i) ==
  IF i > Len(ingredients) THEN <<>>
  ELSE (IF canonicalizeName(synonymsDynamic, ingredients[i]) = <<>> THEN <<>>
        ELSE << canonicalizeName(synonymsDynamic, ingredients[i]) >>)
       \o requestedKeys(synonymsDynamic, ingredients, i + 1)

\* the keys collectFor finds a record for
collectFor(dataByKey, keys) == SelectSeq(keys, LAMBDA k : k \in DOMAIN dataByKey)

\* the node renderDiagnostics appends
renderDiagnostics(st, requested) ==
  IF st.loadError.set
    THEN [ kind |-> "warn", text |-> "Data load error", keys |-> <<>> ]
  ELSE IF collectFor(st.dataByKey, requested) # requested
    THEN [ kind |-> "warn", text |-> "Unmapped ingredients",
           keys |-> SelectSeq(requested, LAMBDA k : k \notin DOMAIN st.dataByKey) ]
  ELSE [ kind |-> "ok", text |-> "All ingredients mapped successfully.", keys |-> <<>> ]

TitleNode ==
  [ kind |-> "title", text |-> "Nutrition & Brain Benefits", keys |-> <<>> ]

NoMatchNode ==
  [ kind |-> "warn", text |-> "No matching ingredients were found in your CSV datasets.",
    keys |-> <<>> ]

\* the five cards, each with one row per collected record
cardsFor(recs) == [ i \in 1..Len(CardTitles) |-> [ kind |-> "card", text |-> CardTitles[i], keys |-> recs ] ]

\* the children of the mount after BP.renderTables resumed
renderedNodes(st, requested) ==
  << TitleNode, renderDiagnostics(st, requested) >>
  \o (IF collectFor(st.dataByKey, requested) = <<>> THEN << NoMatchNode >>
      ELSE cardsFor(collectFor(st.dataByKey, requested)))

\* ---- the files under /data ----------------------------------------------
SourceNames == { CSV_SOURCES[i].name : i \in 1..Len(CSV_SOURCES) }

NoCsv == [ n \in SourceNames |-> Unavailable ]

\* one row per dataset for avocado, an alias row in synonyms.csv
GoodCsv ==
  [ nutrition |-> Served(<< (<<"I","n","g","r","e","d","i","e","n","t">> :> <<"A","v","o","c","a","d","o">>) @@ (<<"C","a","l","o","r","i","e","s">> :> <<"1","6","0">>) >>),
    gi_gl     |-> Served(<< (<<"I","n","g","r","e","d","i","e","n","t">> :> <<"A","v","o","c","a","d","o">>) @@ (<<"G","I">> :> <<"1","5">>) >>),
    dii       |-> Served(<< (<<"I","n","g","r","e","d","i","e","n","t">> :> <<"A","v","o","c","a","d","o">>) @@ (<<"D","I","I">> :> <<"-","1">>) >>),
    cog       |-> Served(<< (<<"I","n","g","r","e","d","i","e","n","t">> :> <<"A","v","o","c","a","d","o">>) @@ (<<"D","i","r","e","c","t"," ","C","o","g","n","i","t","i","v","e"," ","B","e","n","e","f","i","t","s">> :> <<"m","e","m","o","r","y">>) >>),
    diet      |-> Served(<< (<<"I","n","g","r","e","d","i","e","n","t">> :> <<"A","v","o","c","a","d","o">>) @@ (<<"M","I","N","D">> :> <<"Y","e","s">>) >>),
    micro     |-> Served(<< (<<"I","n","g","r","e","d","i","e","n","t">> :> <<"A","v","o","c","a","d","o">>) @@ (<<"M","i","c","r","o","b","i","o","m","e"," ","B","e","n","e","f","i","t">> :> <<"f","i","b","e","r">>),
                            (<<"I","n","g","r","e","d","i","e","n","t">> :> <<"K","a","l","e">>) @@ (<<"M","i","c","r","o","b","i","o","m","e"," ","B","e","n","e","f","i","t">> :> <<"f","i","b","e","r">>) >>),
    micros    |-> Served(<< (<<"i","n","g","r","e","d","i","e","n","t",":">> :> <<"A","v","o","c","a","d","o">>) @@ (<<"F","o","l","a","t","e">> :> <<"8","1">>) >>),
    synonyms  |-> Served(<< (<<"A","l","i","a","s">> :> <<"a","v","o">>) @@ (<<"C","a","n","o","n","i","c","a","l">> :> <<"A","v","o","c","a","d","o">>) >>) ]

\* a file whose only column is not a key column
NoKeyFile == Served(<< (<<"N","a","m","e">> :> <<"A","v","o","c","a","d","o">>) >>)

\* synonyms.csv with a loosely named alias column and no Canonical column
OddSynonyms == Served(<< (<<"A","l","i","a","s">> :> <<"a","v","o">>) >>)

\* every dataset in turn unavailable, empty, or without a key column
Csvs ==
  { GoodCsv, [GoodCsv EXCEPT !.synonyms = OddSynonyms] }
  \cup { [GoodCsv EXCEPT ![n] = f] : n \in SourceNames,
                                     f \in { Unavailable, Served(<<>>), NoKeyFile } }

\* a cell of a column that several datasets supply: empty, blank, a value
SharedCells(x) == { <<>>, <<" ">>, x }

\* nutrition.csv, gi_gl.csv and dii.csv each supply Calories for avocado,
\* under differently spelled keys
MergeCsvs ==
  { [ GoodCsv EXCEPT
        !.nutrition = Served(<< (<<"I","n","g","r","e","d","i","e","n","t">> :> <<"A","v","o","c","a","d","o">>) @@ (<<"C","a","l","o","r","i","e","s">> :> a) >>),
        !.gi_gl     = Served(<< (<<"I","n","g","r","e","d","i","e","n","t">> :> <<"A","V","O","C","A","D","O">>) @@ (<<"C","a","l","o","r","i","e","s">> :> b) @@ (<<"G","I">> :> <<"1","5">>) >>),
        !.dii       = Served(<< (<<"I","n","g","r","e","d","i","e","n","t">> :> <<"A","v","o","c","a","d","o">>) @@ (<<"C","a","l","o","r","i","e","s">> :> <<"7">>) >>) ] :
      a \in SharedCells(<<"1","6","0">>), b \in SharedCells(<<"9","9">>) }

\* gi_gl.csv keys its avocado row by the alias of synonyms.csv
AliasKeyedCsv ==
  [ GoodCsv EXCEPT
      !.gi_gl = Served(<< (<<"I","n","g","r","e","d","i","e","n","t">> :> <<"a","v","o">>) @@ (<<"G","I">> :> <<"1","5">>) >>) ]

MaxRequested == 2

RequestNames == { <<"A","v","o","c","a","d","o">>, <<"a","v","o">>, <<"K","a","l","e">> }

\* the ingredient lists handed to BP.renderTables
Requests == UNION { [ 1..n -> RequestNames ] : n \in 0..MaxRequested }

\* ---- pages with both scripts: the optional files -------------------------
\* settings_global.csv unavailable, empty, or with an alias; also beside an
\* unavailable required file
OptionalServers ==
  { [ GoodServer EXCEPT !.settings = f ] :
      f \in { Unavailable, Served(<<>>), Served(<< EvooAlias >>) } }
  \cup { [ GoodServer EXCEPT !.settings = Unavailable, !.diet = Unavailable ] }

OptionalInput == PageInput(<< RawKale, RawEvoo >>, <<>>, NoPage)

\* synonyms.csv unavailable, empty, without a key column, without a
\* Canonical column; also beside an unavailable required file
OptionalCsvs ==
  { GoodCsv, [ GoodCsv EXCEPT !.synonyms = OddSynonyms ] }
  \cup { [ GoodCsv EXCEPT !.synonyms = f ] :
           f \in { Unavailable, Served(<<>>), NoKeyFile } }
  \cup { [ GoodCsv EXCEPT !.synonyms = Unavailable, !.dii = Unavailable ] }
(***************************************************************************)
(* State                                                                   *)
(***************************************************************************)
VARIABLES
  pc,         \* position of the request: "idle", "loading", "done"
  entry,      \* the generate function of the request
  earlier,    \* the generate function of a request that the request started
              \* over: "" without one, "ended" once its handler has run
  checked,    \* values of the checked ingredient boxes of the page
  pasted,     \* text of the paste panel
  dom,        \* recipe text of the page: candidate elements and body
  server,     \* the six files under CSV_BASE_URL, each served or not
  tables,     \* titles of the tables in the .nt-tables container
  status,     \* text of the .nt-status element
  alerts,     \* messages shown with alert()
  loaded,     \* the datasets the request resolved against
  report,     \* what buildAllTables computed for the request
  session,    \* resolver session: alias table and canonical universes
  cursor,     \* resolver session: number of phrases resolved so far
  call,       \* resolver session: the last phrase and its result
  log,        \* resolver session: (tier, confidence) of every result so far
  segmented,  \* text session: the successive segmentations of a text
  normalized, \* text session: the successive normalizations of its phrases
  csv,        \* v1 loader: the eight files of CSV_SOURCES, each served or not
  loading,    \* v1 loader: index of the next source of loadAllCSVs
  State,      \* v1 loader: the State object
  mount       \* v1 loader: what the #bp-nutrition element holds

pipelineVars ==
  << pc, entry, earlier, checked, pasted, dom, server, tables, status, alerts,
     loaded, report >>

resolverVars == << session, cursor, call, log >>

textVars == << segmented, normalized >>

v1Vars == << csv, loading, State, mount >>

vars == << pipelineVars, resolverVars, textVars, v1Vars >>

statusLoading == "Loading CSV datasets and analyzing..."

statusDone == "Tables generated."

statusErrorCSV ==
  "Could not load one or more required CSV files. Check file names and CSV_BASE_URL in CONFIG."

alertNoAutoDetect ==
  "Couldn't auto-detect ingredients. Use the paste panel or the selections button."

alertNoSelection == "No ingredients selected."

alertNoPasted == "No ingredients found in the pasted text."

NoDatasets ==
  [ settings |-> <<>>, main |-> <<>>, benefits |-> <<>>, diet |-> <<>>,
    microbiome |-> <<>>, micronutrients |-> <<>> ]

NoReport ==
  [ mapped |-> <<>>, perIngredient |-> <<>>, total |-> ZeroTotals,
    overallGI |-> ratioOrNull(0, 0), overallDII |-> ratioOrNull(0, 0),
    diet |-> <<>> ]

NoSession == [ aliasMap |-> <<>>, aliasCanonLower |-> <<>>, mainCanonLower |-> <<>> ]

NoCall == [ norm |-> <<>>, result |-> NoMatch ]

\* the state of the page after ensureUIRoot
PageIdle ==
  /\ pc = "idle"
  /\ entry = ""
  /\ earlier = ""
  /\ tables = <<>>
  /\ status = ""
  /\ alerts = <<>>
  /\ loaded = NoDatasets
  /\ report = NoReport

PipelineIdle ==
  /\ PageIdle
  /\ checked = <<>>
  /\ pasted = <<>>
  /\ dom = NoPage
  /\ server = ServerOf(NoDatasets)

ResolverIdle ==
  /\ session = NoSession
  /\ cursor = 0
  /\ call = NoCall
  /\ log = {}

TextIdle ==
  /\ segmented = <<>>
  /\ normalized = <<>>

\* the mount of the v1 script: its children, the ingredients of the call
\* in progress, whether that call is at `await BP.ready`, and the
\* ingredients of the calls that were at `await BP.ready` when it started
NoMount == [ nodes |-> <<>>, request |-> <<>>, waiting |-> FALSE, queued |-> <<>> ]

\* a page without the v1 script
V1Idle ==
  /\ csv = NoCsv
  /\ loading = 0
  /\ State = StateInit
  /\ mount = NoMount

(***************************************************************************)
(* loadDatasets                                                            *)
(***************************************************************************)
RequiredFiles == { "main", "benefits", "diet", "microbiome", "micronutrients" }

\* loadCSVOptional: the rows, or [] when loadCSV rejects
loadCSVOptional(file) == IF file.ok THEN file.rows ELSE <<>>

\* a loader that waits for mapping_nutrition.csv alone
loadDatasetsRejects_mainOnly(files) == ~files.main.ok

\* a loader that treats settings_global.csv as required
loadDatasetsRejects_anyFile(files) == \E f \in DOMAIN files : ~files[f].ok

\* Promise.all rejects when one of the five loadCSV promises rejects
loadDatasetsRejects(files) == \E f \in RequiredFiles : ~files[f].ok

\* the value loadDatasets resolves with
loadDatasets(files) ==
  [ settings       |-> loadCSVOptional(files.settings),
    main           |-> files.main.rows,
    benefits       |-> files.benefits.rows,
    diet           |-> files.diet.rows,
    microbiome     |-> files.microbiome.rows,
    micronutrients |-> files.micronutrients.rows ]

(***************************************************************************)
(* The requests: generateTablesFromLatestRecipe,                           *)
(* generateTablesFromSelectionsNoAI, generateTablesFromRecipeText          *)
(***************************************************************************)
\* /^GPT CHOOSES/i.test(v)
IsGptChooses(v) ==
  StartsWith(Lower(v), <<"g","p","t"," ","c","h","o","o","s","e","s">>)

\* Array.from(inputs).map(i => i.value).filter(v => v && !/^GPT CHOOSES/i.test(v))
selectedNames(values) == SelectSeq(values, LAMBDA v : v # <<>> /\ ~IsGptChooses(v))

\* the loop over SELECTORS_RECIPE_CANDIDATES: the first element whose text
\* parses to a non-empty list
RECURSIVE firstParsed(_, _)
firstParsed(elements, i) ==
  IF i > Len(elements) THEN <<>>
  ELSE IF extractIngredientsFromText(elements[i]) # <<>>
    THEN extractIngredientsFromText(elements[i])
  ELSE firstParsed(elements, i + 1)

\* the elements, then document.body; null is the empty list here, the
\* caller tests `!lines || !lines.length`
extractIngredientsFromDOM(page) ==
  IF firstParsed(page.elements, 1) # <<>> THEN firstParsed(page.elements, 1)
  ELSE extractIngredientsFromText(page.body)

\* the lines or names a request hands to buildAllTables
requestLines(fn) ==
  CASE fn = "latest"     -> extractIngredientsFromDOM(dom)
    [] fn = "selections" -> selectedNames(checked)
    [] fn = "text"       -> extractIngredientsFromText(pasted)

\* the message of the empty-input return of each generate function
emptyMessage(fn) ==
  CASE fn = "latest"     -> alertNoAutoDetect
    [] fn = "selections" -> alertNoSelection
    [] fn = "text"       -> alertNoPasted

\* everything before `await loadDatasets()`
beginRequest(fn) ==
  /\ pc = "idle"
  /\ pc' = "loading"
  /\ entry' = fn
  /\ tables' = <<>>
  /\ status' = statusLoading
  /\ UNCHANGED << earlier, checked, pasted, dom, server, alerts, loaded, report >>
  /\ UNCHANGED << resolverVars, textVars, v1Vars >>

generateTablesFromLatestRecipe == beginRequest("latest")

generateTablesFromSelectionsNoAI == beginRequest("selections")

generateTablesFromRecipeText == beginRequest("text")

\* buildAllTables(names, datasets, aliasMap, aliasCanonLower, mainCanonLower)
\* with the alias table and the canonical universe of the loaded datasets
tablesWith(names, datasets, aliasInfo) ==
  buildAllTables(names, datasets, aliasInfo.map, aliasInfo.canonicalSet,
                 canonicalUniverseFromMain(datasets.main))

\* a handler without the empty-input return
afterLoad_noEmptyTest(lines, datasets) ==
  /\ report' = tablesWith(lines, datasets, buildAliasMapFromRows(datasets.settings))
  /\ tables' = tables \o TableTitles
  /\ status' = statusDone
  /\ UNCHANGED alerts

\* the handler after the datasets and the lines are known
afterLoad(lines, datasets) ==
  IF lines = <<>>
    THEN /\ status' = ""
         /\ alerts' = Append(alerts, emptyMessage(entry))
         /\ UNCHANGED << tables, report >>
  ELSE /\ report' = tablesWith(lines, datasets,
                               buildAliasMapFromRows(datasets.settings))
       /\ tables' = tables \o TableTitles
       /\ status' = statusDone
       /\ UNCHANGED alerts

\* loadDatasets() resolves; the rest of the handler runs
loadDatasetsResolved ==
  /\ pc = "loading"
  /\ ~loadDatasetsRejects(server)
  /\ loaded' = loadDatasets(server)
  /\ afterLoad(requestLines(entry), loadDatasets(server))
  /\ pc' = "done"
  /\ UNCHANGED << entry, earlier, checked, pasted, dom, server >>
  /\ UNCHANGED << resolverVars, textVars, v1Vars >>

\* loadDatasets() rejects: catch (e) { setStatus(""); alert(e.message) }
loadDatasetsRejected ==
  /\ pc = "loading"
  /\ loadDatasetsRejects(server)
  /\ pc' = "done"
  /\ status' = ""
  /\ alerts' = Append(alerts, statusErrorCSV)
  /\ UNCHANGED << entry, earlier, checked, pasted, dom, server, tables, loaded, report >>
  /\ UNCHANGED << resolverVars, textVars, v1Vars >>

\* the selections request against the nutrition files
Init ==
  /\ PageIdle
  /\ checked \in CheckedLists
  /\ pasted = <<>>
  /\ dom = NoPage
  /\ server \in NutritionServers
  /\ ResolverIdle
  /\ TextIdle
  /\ V1Idle

Next ==
  \/ generateTablesFromSelectionsNoAI
  \/ loadDatasetsResolved
  \/ loadDatasetsRejected

Spec == Init /\ [][Next]_vars

\* the three requests of the page, over every diet file and over servers
\* with failing or unusable files
InitAddOn ==
  /\ PageIdle
  /\ \E page \in DietPages \cup FailingPages :
       /\ server = page.server
       /\ checked = page.input.checked
       /\ pasted = page.input.pasted
       /\ dom = page.input.dom
  /\ ResolverIdle
  /\ TextIdle
  /\ V1Idle

NextAddOn ==
  \/ generateTablesFromLatestRecipe
  \/ generateTablesFromSelectionsNoAI
  \/ generateTablesFromRecipeText
  \/ loadDatasetsResolved
  \/ loadDatasetsRejected

SpecAddOn == InitAddOn /\ [][NextAddOn]_vars

(***************************************************************************)
(* A resolver session: one alias table and canonical universe, built as    *)
(* the request handlers build them, and every phrase of the family         *)
(* resolved against it in turn                                             *)
(***************************************************************************)
InitResolver ==
  /\ PipelineIdle
  /\ TextIdle
  /\ V1Idle
  /\ \E st \in SessionSettings, mn \in SessionMains :
       session = [ aliasMap        |-> buildAliasMapFromRows(st).map,
                   aliasCanonLower |-> buildAliasMapFromRows(st).canonicalSet,
                   mainCanonLower  |-> canonicalUniverseFromMain(mn) ]
  /\ cursor = 0
  /\ call = NoCall
  /\ log = {}

resolvePhrase ==
  /\ cursor < NumPhrases
  /\ LET norm == PhraseAt(cursor)
         m == mapToCanonical(norm, session.aliasMap, session.aliasCanonLower,
                             session.mainCanonLower)
     IN  /\ call' = [ norm |-> norm, result |-> m ]
         /\ log' = log \cup { [ tier |-> m.tier, confidence |-> m.confidence ] }
  /\ cursor' = cursor + 1
  /\ UNCHANGED << session, pipelineVars, textVars, v1Vars >>

NextResolver == resolvePhrase

SpecResolver == InitResolver /\ [][NextResolver]_vars


(***************************************************************************)
(* loadAllCSVs: one step per dataset of CSV_SOURCES, at `await fetchCsv`   *)
(***************************************************************************)
LoadEnded == Len(CSV_SOURCES) + 1

\* the loop is at dataset number `loading`
AtSource == loading \in 1..Len(CSV_SOURCES)

\* the body of the inner try ran to its end: the rows are merged; after the
\* last dataset State.ready is set
sourceLoaded ==
  /\ AtSource
  /\ sourceError(CSV_SOURCES[loading], csv[CSV_SOURCES[loading].name]) = ""
  /\ csv[CSV_SOURCES[loading].name].rows # <<>>
  /\ State' = [ sourceMergedInto(State, CSV_SOURCES[loading],
                                 csv[CSV_SOURCES[loading].name].rows,
                                 chooseKeyColumn(csv[CSV_SOURCES[loading].name].rows[1],
                                                 CSV_SOURCES[loading].keyCandidates))
                EXCEPT !.ready = (loading = Len(CSV_SOURCES)) ]
  /\ loading' = loading + 1
  /\ UNCHANGED << csv, mount >>
  /\ UNCHANGED << pipelineVars, resolverVars, textVars >>

\* an optional dataset that is empty, or whose load threw: continue
sourceSkipped ==
  /\ AtSource
  /\ CSV_SOURCES[loading].optional
  /\ \/ sourceError(CSV_SOURCES[loading], csv[CSV_SOURCES[loading].name]) # ""
     \/ csv[CSV_SOURCES[loading].name].rows = <<>>
  /\ State' = [ State EXCEPT !.ready = (loading = Len(CSV_SOURCES)) ]
  /\ loading' = loading + 1
  /\ UNCHANGED << csv, mount >>
  /\ UNCHANGED << pipelineVars, resolverVars, textVars >>

\* a required dataset threw: the outer catch records State.loadError
sourceFailed ==
  /\ AtSource
  /\ ~CSV_SOURCES[loading].optional
  /\ sourceError(CSV_SOURCES[loading], csv[CSV_SOURCES[loading].name]) # ""
  /\ State' = [ State EXCEPT !.loadError =
                  [ set |-> TRUE, dataset |-> CSV_SOURCES[loading].name,
                    reason |-> sourceError(CSV_SOURCES[loading],
                                           csv[CSV_SOURCES[loading].name]) ] ]
  /\ loading' = LoadEnded
  /\ UNCHANGED << csv, mount >>
  /\ UNCHANGED << pipelineVars, resolverVars, textVars >>

(***************************************************************************)
(* BP.renderTables                                                         *)
(***************************************************************************)
\* up to `await BP.ready`: the mount is emptied and the title appended
renderTablesCalled ==
  /\ loading # 0
  /\ ~mount.waiting
  /\ \E ingredients \in Requests :
       mount' = [ nodes |-> << TitleNode >>, request |-> ingredients,
                  waiting |-> TRUE, queued |-> <<>> ]
  /\ UNCHANGED << csv, loading, State >>
  /\ UNCHANGED << pipelineVars, resolverVars, textVars >>

\* what the calls at `await BP.ready` append when they resume, in the order
\* they were made
RECURSIVE resumedNodes(_, _, _)
resumedNodes(st, requests, i) ==
  IF i > Len(requests) THEN <<>>
  ELSE Tail(renderedNodes(st, requestedKeys(st.synonymsDynamic, requests[i], 1)))
       \o resumedNodes(st, requests, i + 1)

\* a call without the `await BP.ready`
renderTablesResumed_noAwait ==
  /\ mount.waiting
  /\ mount' = [ mount EXCEPT
                  !.nodes = mount.nodes
                            \o resumedNodes(State, Append(mount.queued, mount.request), 1),
                  !.waiting = FALSE,
                  !.queued = <<>> ]
  /\ UNCHANGED << csv, loading, State >>
  /\ UNCHANGED << pipelineVars, resolverVars, textVars >>

\* BP.ready settled: every call at the await resumes, each appending its
\* diagnostics, then its cards or the no-match warning
renderTablesResumed ==
  /\ mount.waiting
  /\ loading = LoadEnded
  /\ mount' = [ mount EXCEPT
                  !.nodes = mount.nodes
                            \o resumedNodes(State, Append(mount.queued, mount.request), 1),
                  !.waiting = FALSE,
                  !.queued = <<>> ]
  /\ UNCHANGED << csv, loading, State >>
  /\ UNCHANGED << pipelineVars, resolverVars, textVars >>

\* the page with the v1 script alone
InitLoader ==
  /\ PipelineIdle
  /\ ResolverIdle
  /\ TextIdle
  /\ csv \in Csvs \cup MergeCsvs \cup { AliasKeyedCsv }
  /\ loading = 1
  /\ State = StateInit
  /\ mount = NoMount

NextLoader ==
  \/ sourceLoaded
  \/ sourceSkipped
  \/ sourceFailed
  \/ renderTablesCalled
  \/ renderTablesResumed

SpecLoader == InitLoader /\ [][NextLoader]_vars

\* the page with both scripts
InitPage ==
  /\ PageIdle
  /\ server \in OptionalServers
  /\ checked = OptionalInput.checked
  /\ pasted = OptionalInput.pasted
  /\ dom = OptionalInput.dom
  /\ ResolverIdle
  /\ TextIdle
  /\ csv \in OptionalCsvs
  /\ loading = 1
  /\ State = StateInit
  /\ mount = NoMount

NextPage ==
  \/ generateTablesFromLatestRecipe
  \/ generateTablesFromSelectionsNoAI
  \/ generateTablesFromRecipeText
  \/ loadDatasetsResolved
  \/ loadDatasetsRejected
  \/ sourceLoaded
  \/ sourceSkipped
  \/ sourceFailed
  \/ renderTablesCalled
  \/ renderTablesResumed

SpecPage == InitPage /\ [][NextPage]_vars

(***************************************************************************)
(* The segmenter and the normalizer called on a recipe text, and called    *)
(* again on their own results.  `segmented` and `normalized` hold the      *)
(* results of the successive calls.                                        *)
(***************************************************************************)
\* linesOrNames.map(normalizeIngredientLine)
normalizeAll(phrases) ==
  [ i \in 1..Len(phrases) |-> normalizeIngredientLine(phrases[i]) ]

\* extractIngredientsFromText(text)
segmentText ==
  /\ segmented = <<>>
  /\ segmented' = << extractIngredientsFromText(pasted) >>
  /\ UNCHANGED << normalized, pipelineVars, resolverVars, v1Vars >>

\* extractIngredientsFromText on the phrases, one per line
resegment ==
  /\ Len(segmented) = 1
  /\ segmented' = Append(segmented, extractIngredientsFromText(JoinLines(segmented[1])))
  /\ UNCHANGED << normalized, pipelineVars, resolverVars, v1Vars >>

\* normalizeIngredientLine on each phrase
normalizePhrases ==
  /\ Len(segmented) >= 1
  /\ normalized = <<>>
  /\ normalized' = << normalizeAll(segmented[1]) >>
  /\ UNCHANGED << segmented, pipelineVars, resolverVars, v1Vars >>

\* normalizeIngredientLine on each normalized phrase
renormalize ==
  /\ Len(normalized) = 1
  /\ normalized' = Append(normalized, normalizeAll(normalized[1]))
  /\ UNCHANGED << segmented, pipelineVars, resolverVars, v1Vars >>

InitText ==
  /\ PageIdle
  /\ checked = <<>>
  /\ dom = NoPage
  /\ server = ServerOf(NoDatasets)
  /\ pasted \in RecipeTexts
  /\ ResolverIdle
  /\ TextIdle
  /\ V1Idle

NextText ==
  \/ segmentText
  \/ resegment
  \/ normalizePhrases
  \/ renormalize

SpecText == InitText /\ [][NextText]_vars

(***************************************************************************)
(* Overlapping requests: a generate function, or BP.renderTables, called   *)
(* while an earlier call is at its await                                   *)
(***************************************************************************)
EntryPoints == { "latest", "selections", "text" }

\* a generate function called while the request in progress awaits
\* loadDatasets(): everything before its own `await loadDatasets()`
generateTablesOverlapping ==
  /\ pc = "loading"
  /\ earlier = ""
  /\ \E fn \in EntryPoints : entry' = fn
  /\ earlier' = entry
  /\ tables' = <<>>
  /\ status' = statusLoading
  /\ UNCHANGED << pc, checked, pasted, dom, server, alerts, loaded, report >>
  /\ UNCHANGED << resolverVars, textVars, v1Vars >>

\* the handler of the earlier request after its datasets and lines are known
earlierAfterLoad(lines) ==
  IF lines = <<>>
    THEN /\ status' = ""
         /\ alerts' = Append(alerts, emptyMessage(earlier))
         /\ UNCHANGED tables
  ELSE /\ tables' = tables \o TableTitles
       /\ status' = statusDone
       /\ UNCHANGED alerts

\* loadDatasets() of the earlier request settles and the rest of its
\* handler runs, before or after the later request ends
earlierRequestSettled ==
  /\ earlier \in EntryPoints
  /\ IF loadDatasetsRejects(server)
       THEN /\ status' = ""
            /\ alerts' = Append(alerts, statusErrorCSV)
            /\ UNCHANGED tables
     ELSE earlierAfterLoad(requestLines(earlier))
  /\ earlier' = "ended"
  /\ UNCHANGED << pc, entry, checked, pasted, dom, server, loaded, report >>
  /\ UNCHANGED << resolverVars, textVars, v1Vars >>

\* the ingredient lists of the calls that start over another call
OverlapRequests == { <<>>, << <<"A","v","o","c","a","d","o">> >> }

\* BP.renderTables called while a call is at `await BP.ready`: the mount is
\* emptied and the title appended again
renderTablesOverlapping ==
  /\ loading # 0
  /\ mount.waiting
  /\ mount.queued = <<>>
  /\ \E ingredients \in OverlapRequests :
       mount' = [ nodes |-> << TitleNode >>, request |-> ingredients,
                  waiting |-> TRUE, queued |-> Append(mount.queued, mount.request) ]
  /\ UNCHANGED << csv, loading, State >>
  /\ UNCHANGED << pipelineVars, resolverVars, textVars >>

\* pages for overlapping requests: every file served, the optional file of
\* the v1 loader unavailable, a required file of each script unavailable
OverlapFiles ==
  { [ server |-> GoodServer, csv |-> GoodCsv ],
    [ server |-> GoodServer, csv |-> [ GoodCsv EXCEPT !.synonyms = Unavailable ] ],
    [ server |-> [ GoodServer EXCEPT !.diet = Unavailable ],
      csv    |-> [ GoodCsv EXCEPT !.dii = Unavailable ] ] }

\* the selections give tables, the paste panel and the document give nothing

OverlapInput == PageInput(<< RawKale >>, <<>>, NoPage)

InitOverlap ==
  /\ PageIdle
  /\ \E files \in OverlapFiles : server = files.server /\ csv = files.csv
  /\ checked = OverlapInput.checked
  /\ pasted = OverlapInput.pasted
  /\ dom = OverlapInput.dom
  /\ ResolverIdle
  /\ TextIdle
  /\ loading = 1
  /\ State = StateInit
  /\ mount = NoMount

NextOverlap ==
  \/ generateTablesFromLatestRecipe
  \/ generateTablesFromSelectionsNoAI
  \/ generateTablesFromRecipeText
  \/ generateTablesOverlapping
  \/ earlierRequestSettled
  \/ loadDatasetsResolved
  \/ loadDatasetsRejected
  \/ sourceLoaded
  \/ sourceSkipped
  \/ sourceFailed
  \/ renderTablesCalled
  \/ renderTablesOverlapping
  \/ renderTablesResumed

SpecOverlap == InitOverlap /\ [][NextOverlap]_vars
(***************************************************************************)
(* Properties of the resolver (checked under SpecResolver)                 *)
(***************************************************************************)
\* the keys of the session's alias table
SessionKeys == { session.aliasMap[i].key : i \in DOMAIN session.aliasMap }

\* the phrase left after dropping the first k words of norm
DropWords(norm, k) ==
  LET parts == SplitWords(norm) IN JoinWords(SubSeq(parts, k + 1, Len(parts)))

\* the numbers of leading words whose removal leaves a key of the alias table
SuffixDrops(norm) ==
  { k \in 0..(Len(SplitWords(norm)) - 1) : DropWords(norm, k) \in SessionKeys }

\* C1: a phrase that is a key of the alias table resolves to that entry's
\* canonical identity with confidence 1.0, whatever the canonical universe
\* holds; and the tier that answers is the first one that can: no suffix of
\* the phrase is a key when alias containment answers, and no key is
\* contained in the phrase when the canonical universe answers.
C1_ExactAliasFirst ==
  cursor > 0 =>
    /\ \A i \in DOMAIN session.aliasMap :
         call.norm = session.aliasMap[i].key =>
           /\ call.result.found
           /\ call.result.canonical = session.aliasMap[i].val
           /\ call.result.confidence = <<100, 100>>
    /\ call.result.tier = 2 => call.norm \notin SessionKeys
    /\ call.result.tier = 3 => SuffixDrops(call.norm) = {}
    /\ call.result.tier = 4 =>
         \A k \in SessionKeys : ~Includes(call.norm, k)

\* C1 witness: the phrase is an alias key and also a name of the canonical
\* universe, and the alias entry answered.
C1_Witness ==
  /\ cursor > 0
  /\ call.norm \in SessionKeys
  /\ call.norm \in Range(session.mainCanonLower)
  /\ call.result.tier = 1
  /\ call.result.canonical # call.norm

\* C2 as stated: every result of an earlier tier has a confidence at least
\* that of every result of a later tier.
C2_TierOrderBoundsConfidence ==
  \A a, b \in log :
    (a.tier >= 1 /\ b.tier >= 1 /\ a.tier < b.tier) =>
      FracGE(a.confidence, b.confidence)

\* C2 amended: an exact-alias result has a confidence at least that of
\* every result of a later tier, and is exactly 1.0; no result exceeds 1.0.
C2_ExactAliasIsMaximal ==
  /\ \A a, b \in log :
       (a.tier = 1 /\ b.tier > 1) => FracGE(a.confidence, b.confidence)
  /\ \A a \in log : a.tier = 1 => a.confidence = <<100, 100>>

\* C2 witness: the session has seen an exact-alias result, an alias
\* containment result and a canonical-universe exact match of 0.95.
C2_Witness ==
  /\ \E a \in log : a.tier = 1
  /\ \E a \in log : a.tier = 3
  /\ \E b \in log : b.tier = 4 /\ b.confidence = <<95, 100>>

\* C3: a suffix match after dropping k leading words has confidence
\* max(0, 0.9 - 0.05k), which lies in [0, 1].
C3_SuffixConfidenceClamped ==
  (cursor > 0 /\ call.result.tier = 2) =>
    LET k == Min(SuffixDrops(call.norm))
        expected == IF 90 - 5 * k > 0 THEN 90 - 5 * k ELSE 0
    IN  /\ call.result.confidence = <<expected, 100>>
        /\ FracGE(call.result.confidence, <<0, 100>>)
        /\ FracGE(<<100, 100>>, call.result.confidence)

(***************************************************************************)
(* Properties of the report (checked under Spec).  They are stated on the  *)
(* records of mapping_nutrition.csv themselves: a metric is present in a   *)
(* record when its column exists and the cell holds a number.              *)
(***************************************************************************)
\* the request produced a report
Reported == pc = "done" /\ tables # <<>>

\* the names handed to buildAllTables
InputNames == selectedNames(checked)

Mentions == DOMAIN report.perIngredient

\* the records of the main dataset filed under the identity of mention i
RecordsOf(i) ==
  { r \in Range(loaded.main) :
      "Ingredient" \in DOMAIN r /\ r["Ingredient"].s = report.perIngredient[i].canonical }

HasRecord(i) == RecordsOf(i) # {}

RecordOf(i) == CHOOSE r \in RecordsOf(i) : TRUE

Present(r, column) == column \in DOMAIN r /\ r[column].t = "num"

\* the serving size of the record when present and positive, else 100
PortionOf(r) ==
  IF Present(r, "serving_size_g") /\ r["serving_size_g"].n > 0
    THEN r["serving_size_g"].n ELSE 100

\* the column of the main dataset behind each field of a nutrient profile
ColumnOf ==
  [ calories |-> "calories", protein_g |-> "protein_g", fiber_g |-> "fibre",
    carbs_g |-> "carbs", fat_g |-> "fat", gi |-> "GI", gl |-> "GL", dii |-> "DII" ]

ScaledFields == { "calories", "protein_g", "fiber_g", "carbs_g", "fat_g", "gl" }

AllFields == ScaledFields \cup { "gi", "dii" }

\* sum of F(i) over the mentions 1..n that satisfy P
RECURSIVE SumWhere(_, _, _)
SumWhere(P(_), F(_), n) ==
  IF n = 0 THEN 0
  ELSE SumWhere(P, F, n - 1) + (IF P(n) THEN F(n) ELSE 0)

\* mention i has a record with the metric of field f present
Has(i, f) == HasRecord(i) /\ Present(RecordOf(i), ColumnOf[f])

\* the portion-scaled value of field f of mention i, in hundredths
ScaledValue(i, f) == RecordOf(i)[ColumnOf[f]].n * PortionOf(RecordOf(i))

\* the alias keys and the canonical names of the loaded reference data
LoadedAliasKeys == { Lower(Trim(r["alias"].s)) : r \in Range(loaded.settings) }

LoadedAliasTargets == { Lower(Trim(r["canonical"].s)) : r \in Range(loaded.settings) }

LoadedMainNames == { Lower(Trim(r["Ingredient"].s)) : r \in Range(loaded.main) }

\* no tier of the resolver can answer for the normalized phrase
MatchesNoTier(norm) ==
  \A c \in LoadedAliasKeys \cup LoadedAliasTargets \cup LoadedMainNames :
     ~Includes(norm, c)

\* the list without its i-th element
Without(q, i) == SubSeq(q, 1, i - 1) \o SubSeq(q, i + 1, Len(q))

\* C4 as stated: the per-ingredient list has exactly one row per input
\* phrase, in input order.
C4_OneRowPerPhrase ==
  Reported =>
    /\ Len(report.perIngredient) = Len(InputNames)
    /\ \A i \in DOMAIN InputNames : report.perIngredient[i].ingredient = InputNames[i]

\* C5 as stated: every checked name whose normalized phrase matches no
\* tier is recorded as a mention with no canonical identity, confidence 0
\* and all eight nutrient fields null, and the report is produced without
\* an alert.
C5_MissIsRecorded ==
  Reported =>
    /\ alerts = <<>>
    /\ status = statusDone
    /\ tables = TableTitles
    /\ \A k \in DOMAIN InputNames :
         MatchesNoTier(normalizeIngredientLine(InputNames[k])) =>
           \E i \in Mentions :
             /\ report.mapped[i].src = InputNames[k]
             /\ report.mapped[i].canonical = Null
             /\ report.mapped[i].confidence = <<0, 100>>
             /\ \A f \in AllFields : report.perIngredient[i].mac[f] = Null

\* C5 for the names the resolver is called on (normalized phrase not
\* empty): a name that matches no tier is kept as a row with no canonical
\* identity, confidence 0 and all eight nutrient fields null; the totals and
\* weighted averages are those of the request without that name, the five
\* tables are appended and no alert is raised.
C5_MissIsNonFatal ==
  Reported =>
    /\ alerts = <<>>
    /\ status = statusDone
    /\ tables = TableTitles
    /\ \A i \in Mentions :
         LET norm == normalizeIngredientLine(report.perIngredient[i].ingredient)
         IN  (norm # <<>> /\ MatchesNoTier(norm)) =>
               /\ report.mapped[i].canonical = Null
               /\ report.mapped[i].confidence = <<0, 100>>
               /\ report.perIngredient[i].canonical = Unmapped
               /\ \A f \in AllFields : report.perIngredient[i].mac[f] = Null
               /\ report.total =
                    totalsOver(Without(report.perIngredient, i),
                               Len(report.perIngredient) - 1)

\* C5 witness (resolver called): a report with an unresolved name next to a resolved one
\* that contributes to the totals.
C5_Witness ==
  /\ Reported
  /\ \E i, j \in Mentions :
       /\ normalizeIngredientLine(report.perIngredient[i].ingredient) # <<>>
       /\ MatchesNoTier(normalizeIngredientLine(report.perIngredient[i].ingredient))
       /\ report.mapped[i].canonical = Null
       /\ HasRecord(j)
       /\ report.total.calories > 0

\* C6 as stated: the overall glycemic index is sum(GI * carbs) / sum(carbs)
\* over exactly the mentions whose record has both GI and carbs present,
\* and null when that carbs sum is zero.
C6_OverallGI ==
  Reported =>
    LET both(i) == Has(i, "gi") /\ Has(i, "carbs_g")
        weighted(i) == RecordOf(i)["GI"].n * ScaledValue(i, "carbs_g")
        carbs(i) == ScaledValue(i, "carbs_g")
        numer == SumWhere(both, weighted, Len(report.perIngredient))
        den == SumWhere(both, carbs, Len(report.perIngredient))
    IN  IF den = 0 THEN report.overallGI.isNull
        ELSE /\ ~report.overallGI.isNull
             /\ report.overallGI.n * den = numer * report.overallGI.d

\* C7: each of the six totals is the sum of the portion-scaled values of
\* the mentions whose record has the metric present.
C7_TotalsAreSums ==
  Reported =>
    \A f \in ScaledFields :
      LET has(i) == Has(i, f)
          value(i) == ScaledValue(i, f)
      IN  report.total[f] = SumWhere(has, value, Len(report.perIngredient))

\* C7 witness: three mentions, the metric present in the first and third
\* record and missing from the second, and the total is the sum of the two.
C7_Witness ==
  /\ Reported
  /\ Len(report.perIngredient) = 3
  /\ Has(1, "calories") /\ Has(3, "calories")
  /\ HasRecord(2) /\ ~Has(2, "calories")
  /\ report.total.calories = ScaledValue(1, "calories") + ScaledValue(3, "calories")
  /\ report.total.calories > 0

\* C8 as stated: the overall inflammatory index is sum(DII * portion) /
\* sum(portion) over exactly the mentions whose record has DII present, and
\* null when no mention contributes.
C8_OverallDII ==
  Reported =>
    LET has(i) == Has(i, "dii")
        weighted(i) == RecordOf(i)["DII"].n * PortionOf(RecordOf(i))
        mass(i) == PortionOf(RecordOf(i))
        numer == SumWhere(has, weighted, Len(report.perIngredient))
        den == SumWhere(has, mass, Len(report.perIngredient))
    IN  IF \A i \in Mentions : ~Has(i, "dii") THEN report.overallDII.isNull
        ELSE /\ ~report.overallDII.isNull
             /\ report.overallDII.n * den = numer * report.overallDII.d

\* C9: for a mention with a record, the portion is the serving size of the
\* record when present and positive and 100 otherwise; each of calories,
\* protein, fiber, carbs, fat and glycemic load present in the record is
\* returned multiplied by portion/100; glycemic index and inflammatory
\* index present in the record are returned as they are.
C9_PortionScaling ==
  Reported =>
    \A i \in Mentions :
      HasRecord(i) =>
        /\ report.perIngredient[i].portion_g = Num(PortionOf(RecordOf(i)))
        /\ \A f \in ScaledFields :
             Has(i, f) => report.perIngredient[i].mac[f] = Num(ScaledValue(i, f))
        /\ \A f \in { "gi", "dii" } :
             Has(i, f) => report.perIngredient[i].mac[f] = RecordOf(i)[ColumnOf[f]]

\* C9 witness: a record with a serving size of 250 next to a record whose
\* serving-size cell is empty (portion 100), the first with GI and calories
\* present: calories scaled by 250/100, GI returned as it is.
C9_Witness ==
  /\ Reported
  /\ \E i, j \in Mentions :
       /\ HasRecord(i) /\ HasRecord(j)
       /\ PortionOf(RecordOf(i)) = 250
       /\ "serving_size_g" \in DOMAIN RecordOf(j)
       /\ report.perIngredient[j].portion_g = Num(100)
       /\ Has(i, "gi") /\ Has(i, "calories")
       /\ report.perIngredient[i].mac.calories = Num(250 * RecordOf(i)["calories"].n)
       /\ report.perIngredient[i].mac.gi = RecordOf(i)["GI"]

\* C10 as stated: a metric that the record of a resolved mention lacks
\* (no column, empty cell, text) is null in the mention's nutrient profile.
C10_AbsentIsNull ==
  Reported =>
    \A i \in Mentions :
      HasRecord(i) =>
        \A f \in AllFields :
          ~Has(i, f) => report.perIngredient[i].mac[f] = Null


(***************************************************************************)
(* Claims about the v1 loader                                              *)
(***************************************************************************)
\* a call of BP.renderTables has run to its end
RenderEnded == ~mount.waiting /\ mount.nodes # <<>>

ShowsLoadError ==
  \E i \in 1..Len(mount.nodes) :
    mount.nodes[i].kind = "warn" /\ mount.nodes[i].text = "Data load error"

RendersCard == \E i \in 1..Len(mount.nodes) : mount.nodes[i].kind = "card"

\* C13: when a required dataset failed during loadAllCSVs, a call of
\* BP.renderTables that has ended shows the load-error message and has
\* rendered none of the five tables.
C13_LoadErrorRendersNoTable ==
  (State.loadError.set /\ RenderEnded) => (ShowsLoadError /\ ~RendersCard)

\* what the code does: the load error is shown, and the cards are rendered
\* exactly when some requested key was merged before the failing dataset
C13_LoadErrorShownCardsFollowData ==
  (State.loadError.set /\ RenderEnded) =>
    /\ ShowsLoadError
    /\ ~State.ready
    /\ RendersCard <=>
         collectFor(State.dataByKey,
                    requestedKeys(State.synonymsDynamic, mount.request, 1)) # <<>>

(***************************************************************************)
(* Claims about the requests of the add-on                                 *)
(***************************************************************************)
\* a request has produced its report
ReportDone == pc = "done" /\ status = statusDone

\* the first diet record of an ingredient row, as zero or one record
dietRecordOf(r) == dietRowsOf(r, indexByCanonical(loaded.diet))

\* the cell of an ingredient row under a diet tag; no record reads as no cell
dietCellOf(r, dietName) ==
  IF dietRecordOf(r) = <<>> THEN Undef
  ELSE getField(dietRecordOf(r)[1], <<dietName>>)

\* the text of a cell that has one
cellText(v) == Lower(Trim(JsString(v)))

\* a cell that says no: n, no, false or 0, the counterparts of the four
\* spellings of yes
SaysNo(v) ==
  /\ v \notin { Undef, Null }
  /\ cellText(v) \in { <<"n">>, <<"n","o">>, <<"f","a","l","s","e">>, <<"0">> }

\* a cell without a value: no cell, an empty cell, blank text
SaysNothing(v) == v \in { Undef, Null } \/ cellText(v) = <<>>

\* the rows of the report explicitly incompatible with a diet tag
Incompatible(dietName) ==
  { i \in DOMAIN report.perIngredient :
      SaysNo(dietCellOf(report.perIngredient[i], dietName)) }

\* some ingredient of the request is unresolved or has no diet value: a
\* phrase without a row in the report, a row without a canonical name, a
\* row without a diet record or without a value under the tag
SomeUnknown(dietName) ==
  \/ Len(report.perIngredient) < Len(requestLines(entry))
  \/ \E i \in DOMAIN report.perIngredient :
       \/ report.perIngredient[i].canonical = Unmapped
       \/ SaysNothing(dietCellOf(report.perIngredient[i], dietName))

ExpectedVerdict(dietName) ==
  IF Incompatible(dietName) # {} THEN "No"
  ELSE IF SomeUnknown(dietName) THEN "Likely"
  ELSE "Yes"

\* C11: for each detected diet tag the verdict is No when an ingredient is
\* explicitly incompatible, else Likely when an ingredient is unresolved or
\* has no diet value, else Yes; every No names the incompatible ingredients.
C11_DietVerdict ==
  ReportDone =>
    \A k \in DOMAIN report.diet :
      report.diet[k].diet # "-" =>
        /\ report.diet[k].compat = ExpectedVerdict(report.diet[k].diet)
        /\ report.diet[k].compat = "No" =>
             \A i \in Incompatible(report.diet[k].diet) :
               report.perIngredient[i].ingredient \in Range(report.diet[k].names)

\* a cell with text that is not a spelling of yes
TextSaysNo(v) ==
  /\ v \notin { Undef, Null }
  /\ v.t = "str"
  /\ cellText(v) # <<>>
  /\ ~isYes(cellText(v))

\* the part of C11 the code keeps: a textual no gives No whatever the other
\* ingredients are, and the row names the ingredient
C11_TextualNoWins ==
  ReportDone =>
    \A k \in DOMAIN report.diet :
      \A i \in DOMAIN report.perIngredient :
        (/\ report.diet[k].diet # "-"
         /\ TextSaysNo(dietCellOf(report.perIngredient[i], report.diet[k].diet))
         /\ Len(report.perIngredient) <= MaxOffenders)
        => /\ report.diet[k].compat = "No"
           /\ report.perIngredient[i].ingredient \in Range(report.diet[k].names)

\* a No beside an unresolved ingredient
C11_Witness ==
  /\ ReportDone
  /\ \E k \in DOMAIN report.diet :
       /\ report.diet[k].compat = "No"
       /\ \E i \in DOMAIN report.perIngredient :
            report.perIngredient[i].canonical = Unmapped

\* a required file of the request cannot be fetched or parsed
RequiredFileFails == \E f \in RequiredFiles : ~server[f].ok

\* C12: when a required dataset fails to load, the request is aborted: no
\* table is appended, the status is cleared, and exactly one error message
\* is reported.
C12_RequiredFailureAborts ==
  (pc = "done" /\ RequiredFileFails) =>
    /\ tables = <<>>
    /\ report = NoReport
    /\ status = ""
    /\ alerts = << statusErrorCSV >>

\* a request for pasted text that gives phrases ended while a required file
\* other than mapping_nutrition.csv was unavailable
C12_Witness ==
  /\ pc = "done"
  /\ entry = "text"
  /\ extractIngredientsFromText(pasted) # <<>>
  /\ server.main.ok
  /\ RequiredFileFails

\* the column names indexByCanonical reads the key from
KeySynonyms == Range(A_canonical) \cup Range(KeyFallback)

\* a dataset with records, none of which has a key column
HasNoKeyColumn(rows) ==
  /\ rows # <<>>
  /\ \A i \in DOMAIN rows : \A k \in DOMAIN rows[i] : LowerName(k) \notin KeySynonyms

\* C15: a request whose required dataset has records but no key column ends
\* with an error and produces no report.
C15_NoKeyColumnRejected ==
  (/\ pc = "done"
   /\ \E f \in RequiredFiles : server[f].ok /\ HasNoKeyColumn(server[f].rows))
  => /\ tables = <<>>
     /\ report = NoReport
     /\ alerts # <<>>

\* what the code does with mapping_nutrition.csv without a key column: the
\* index is empty, the report is produced and no phrase has a record
C15_NoKeyColumnGivesEmptyIndex ==
  (ReportDone /\ HasNoKeyColumn(loaded.main)) =>
    /\ indexByCanonical(loaded.main) = <<>>
    /\ tables = TableTitles
    /\ alerts = <<>>
    /\ \A i \in DOMAIN report.perIngredient :
         report.perIngredient[i].canonical = Unmapped

\* the empty-input outcome of a request: the dedicated message of its
\* generate function and nothing else
EmptyInputOutcome ==
  /\ tables = <<>>
  /\ report = NoReport
  /\ status = ""
  /\ alerts = << emptyMessage(entry) >>
  /\ emptyMessage(entry) # statusErrorCSV

\* C16 as stated: whenever no phrase can be extracted or no name is
\* selected, the request ends in the empty-input outcome.
C16_EmptyInputAlways ==
  (pc = "done" /\ requestLines(entry) = <<>>) => EmptyInputOutcome

\* C16, amended: a request whose required datasets load and that has no
\* phrase or no selected name ends in the empty-input outcome: the dedicated
\* message, no table, the status cleared, no error.
C16_EmptyInputAfterLoad ==
  (pc = "done" /\ ~RequiredFileFails /\ requestLines(entry) = <<>>) =>
    EmptyInputOutcome

\* the document has text, none of it gives a phrase, and the files load
C16_Witness ==
  /\ pc = "done"
  /\ entry = "latest"
  /\ dom # NoPage
  /\ requestLines(entry) = <<>>
  /\ ~RequiredFileFails
  /\ alerts = << alertNoAutoDetect >>

(***************************************************************************)
(* Claims about the optional datasets of both scripts                      *)
(***************************************************************************)
EmptyAliasInfo == [ map |-> <<>>, canonicalSet |-> <<>> ]

\* the add-on: settings_global.csv fails and the required files load
SettingsFailedOnly == ~server.settings.ok /\ ~RequiredFileFails

\* the request is not failed, settings is empty, the five required datasets
\* are the served rows, and phrases are resolved with an empty alias table
AddOnDegrades ==
  /\ statusErrorCSV \notin Range(alerts)
  /\ loaded = [ f \in FileNames |-> server[f].rows ]
  /\ loaded.settings = <<>>
  /\ requestLines(entry) # <<>> =>
       /\ status = statusDone
       /\ alerts = <<>>
       /\ report = tablesWith(requestLines(entry), loaded, EmptyAliasInfo)

SynonymsSource == CSV_SOURCES[Len(CSV_SOURCES)]

\* the v1 loader: synonyms.csv cannot be fetched or parsed
SynonymsFailed == sourceError(SynonymsSource, csv.synonyms) # ""

RequiredSources == { n \in SourceNames : n # SynonymsSource.name }

RequiredSourceFails ==
  \E i \in 1..Len(CSV_SOURCES) :
    ~CSV_SOURCES[i].optional /\ sourceError(CSV_SOURCES[i], csv[CSV_SOURCES[i].name]) # ""

\* no load error, the loader is ready, the seven required datasets were
\* merged, and the alias table is empty
LoaderDegrades ==
  /\ ~State.loadError.set
  /\ State.ready
  /\ DOMAIN State.keyColByDataset = RequiredSources
  /\ State.synonymsDynamic = <<>>

\* C14: a failure of an optional dataset (settings_global.csv, synonyms.csv)
\* never fails the request and never sets the load error: the dataset is
\* empty, the other datasets are loaded, resolution uses an empty alias
\* table.
C14_OptionalFailureDegrades ==
  /\ (pc = "done" /\ SettingsFailedOnly) => AddOnDegrades
  /\ (loading = LoadEnded /\ SynonymsFailed) =>
       /\ State.loadError.set <=> RequiredSourceFails
       /\ ~RequiredSourceFails => LoaderDegrades

\* both scripts ended after their optional file had failed
C14_Witness ==
  /\ pc = "done"
  /\ entry = "selections"
  /\ SettingsFailedOnly
  /\ report.mapped # <<>>
  /\ loading = LoadEnded
  /\ ~csv.synonyms.ok
  /\ State.ready
  /\ RenderEnded
  /\ RendersCard

(***************************************************************************)
(* Claims about the segmenter and the normalizer                           *)
(***************************************************************************)
\* C17: segmenting the extracted phrases, one per line, returns the same
\* list of phrases.
C17_SegmenterIdempotent == Len(segmented) = 2 => segmented[2] = segmented[1]

\* the part of C17 the code keeps: phrases that do not start with a marker
\* character, hold no header and no metadata word come back unchanged
C17_PlainPhrasesStable ==
  (/\ Len(segmented) = 2
   /\ \A i \in DOMAIN segmented[1] :
        /\ ~HasMarker(segmented[1][i])
        /\ ~IsIngredientsHeader(segmented[1][i])
        /\ ~IsTerminator(segmented[1][i])
        /\ ~IsMetadata(segmented[1][i])
        /\ SplitLength(segmented[1][i]) <= MaxPhraseWords)
  => segmented[2] = segmented[1]

\* the cleaned lines of the pasted text
CleanLines == TrimmedLines(SplitLines(pasted))

\* the first line at or after the start line that is a terminator header or
\* a metadata line; one past the last line when there is none
StopLine ==
  Min({ i \in firstLine(CleanLines)..Len(CleanLines) :
          IsTerminator(CleanLines[i]) \/ IsMetadata(CleanLines[i]) }
      \cup { Len(CleanLines) + 1 })

\* out is made, in order, of lines of cands from position j on, each as it
\* is or without its list marker
RECURSIVE FromLinesInOrder(_, _, _)
FromLinesInOrder(out, cands, j) ==
  IF out = <<>> THEN TRUE
  ELSE IF j > Len(cands) THEN FALSE
  ELSE IF out[1] \in { cands[j], Trim(StripMarker(cands[j])) }
    THEN FromLinesInOrder(Tail(out), cands, j + 1)
  ELSE FromLinesInOrder(out, cands, j + 1)

\* C18: the phrases are, in input order, lines after the first Ingredients
\* header and before the first terminator header or metadata line that
\* follows the start line.
C18_OutputWithinSection ==
  Len(segmented) >= 1 =>
    FromLinesInOrder(segmented[1],
                     SubSeq(CleanLines, firstLine(CleanLines), StopLine - 1), 1)

\* the first terminator header at or after the start line
TerminatorLine ==
  Min({ i \in firstLine(CleanLines)..Len(CleanLines) : IsTerminator(CleanLines[i]) }
      \cup { Len(CleanLines) + 1 })

\* the part of C18 the code keeps: the header and the terminator bound the
\* phrases, and the order is the input order
C18_OutputBeforeTerminator ==
  Len(segmented) >= 1 =>
    FromLinesInOrder(segmented[1],
                     SubSeq(CleanLines, firstLine(CleanLines), TerminatorLine - 1), 1)

\* C19 as stated: normalizing a normalized phrase gives the same phrase.
C19_NormalizerFixedPoint == Len(normalized) = 2 => normalized[2] = normalized[1]

\* a normalized phrase a second pass finds nothing to strip from: it does
\* not end in "s" and holds no unit token and no descriptor token
Settled(y) ==
  /\ ~EndsWith(y, <<"s">>)
  /\ StripVocabulary(y, 1, UnitWords, {}) = y
  /\ StripVocabulary(y, 1, DescriptorWords, {ToTaste}) = y

\* C19, amended: normalizing a normalized phrase that does not end in "s"
\* and holds no unit or descriptor token gives the same phrase.
C19_FixedPointWhenSettled ==
  Len(normalized) = 2 =>
    \A i \in DOMAIN normalized[1] :
      Settled(normalized[1][i]) => normalized[2][i] = normalized[1][i]

\* a phrase that lost a quantity, a unit and a plural ending, normalized twice
C19_Witness ==
  /\ Len(normalized) = 2
  /\ \E i \in DOMAIN normalized[1] :
       /\ normalized[1][i] # <<>>
       /\ normalized[1][i] # Lower(segmented[1][i])
       /\ Settled(normalized[1][i])
       /\ normalized[2][i] = normalized[1][i]

(***************************************************************************)
(* Claims about the order of candidates within a containment tier          *)
(***************************************************************************)
\* the alias keys contained in the phrase of the call, by position
AliasHits == { i \in DOMAIN session.aliasMap : Includes(call.norm, session.aliasMap[i].key) }

\* the canonical names of the main universe the phrase equals or contains
MainHits ==
  { i \in DOMAIN session.mainCanonLower : Includes(call.norm, session.mainCanonLower[i]) }

\* the alias targets the phrase equals or contains
AliasCanonHits ==
  { i \in DOMAIN session.aliasCanonLower :
      Includes(call.norm, session.aliasCanonLower[i]) }

\* C20: a result of a containment tier is the first qualifying candidate in
\* the insertion order of the alias table, of the canonical universe, or of
\* the alias targets.
C20_FirstQualifyingCandidate ==
  /\ call.result.tier = 3 =>
       call.result.canonical = session.aliasMap[Min(AliasHits)].val
  /\ (call.result.tier = 4 /\ MainHits # {}) =>
       call.result.canonical = session.mainCanonLower[Min(MainHits)]
  /\ (call.result.tier = 4 /\ MainHits = {}) =>
       call.result.canonical = session.aliasCanonLower[Min(AliasCanonHits)]

\* the longest canonical names among the names the phrase contains
LongestMainHits ==
  { i \in MainHits :
      \A j \in MainHits :
        Len(session.mainCanonLower[j]) <= Len(session.mainCanonLower[i]) }

\* what the code does: the alias table and the alias targets give their
\* first candidate, the canonical universe gives the first of its longest
\* candidates
C20_FirstAliasLongestMain ==
  /\ call.result.tier = 3 =>
       call.result.canonical = session.aliasMap[Min(AliasHits)].val
  /\ (call.result.tier = 4 /\ MainHits # {}) =>
       call.result.canonical = session.mainCanonLower[Min(LongestMainHits)]
  /\ (call.result.tier = 4 /\ MainHits = {}) =>
       call.result.canonical = session.aliasCanonLower[Min(AliasCanonHits)]

(***************************************************************************)
(* Claims about the canonical-universe tier                                *)
(***************************************************************************)
\* no tier of the alias table answers the phrase of the call
NoAliasTierMatch ==
  \/ session.aliasMap = <<>>
  \/ /\ ~ExactAlias(call.norm, session.aliasMap).found
     /\ ~SuffixAlias(call.norm, session.aliasMap).found
     /\ ~AliasContainment(call.norm, session.aliasMap).found

\* the phrase is a proper substring of the canonical name
ContainedBy(norm, c) == Includes(c, norm) /\ norm # c

\* the canonical names the phrase is a proper substring of
ContainingNames ==
  { i \in DOMAIN session.mainCanonLower :
      ContainedBy(call.norm, session.mainCanonLower[i]) }

\* the result is a name of the canonical universe
FromUniverse ==
  /\ call.result.found
  /\ call.result.tier = 4
  /\ call.result.canonical \in Range(session.mainCanonLower)

\* C21: when no earlier tier matched, a phrase that equals a canonical name,
\* contains one, or is contained by one resolves to a canonical name, and
\* equality gets the highest confidence of the tier.
C21_UniverseThreeCases ==
  (call.norm # <<>> /\ NoAliasTierMatch) =>
    /\ (MainHits # {} \/ ContainingNames # {}) => FromUniverse
    /\ call.norm \in Range(session.mainCanonLower) =>
         /\ call.result.canonical = call.norm
         /\ call.result.confidence = <<95, 100>>

\* what the code does: the phrase resolves when it equals or contains a
\* canonical name; equality scores 0.95 and containment at most 0.9
C21_EqualsOrContains ==
  (call.norm # <<>> /\ NoAliasTierMatch) =>
    /\ MainHits # {} => FromUniverse
    /\ call.norm \in Range(session.mainCanonLower) =>
         /\ call.result.canonical = call.norm
         /\ call.result.confidence = <<95, 100>>
    /\ (FromUniverse /\ call.norm \notin Range(session.mainCanonLower)) =>
         FracGE(<<90, 100>>, call.result.confidence)
    /\ (MainHits = {} /\ ContainingNames # {} /\ session.aliasCanonLower = <<>>) =>
         ~call.result.found

(***************************************************************************)
(* Claims about the merged records of the v1 loader                        *)
(***************************************************************************)
\* the datasets whose rows have been merged so far, by position
MergedSources ==
  { i \in 1..Len(CSV_SOURCES) :
      /\ CSV_SOURCES[i].name # "synonyms"
      /\ CSV_SOURCES[i].name \in DOMAIN State.keyColByDataset }

\* the key mergeRecord was called with for a row
mergeKeyOf(row, keyCol) == canonicalizeName(<<>>, Cell(row, keyCol))

\* the rows mergeRecord was called with for a key, in the order of the calls
RECURSIVE rowsMergedFor(_, _)
rowsMergedFor(key, i) ==
  IF i > Len(CSV_SOURCES) THEN <<>>
  ELSE (IF i \in MergedSources
          THEN SelectSeq(csv[CSV_SOURCES[i].name].rows,
                 LAMBDA r :
                   /\ Cell(r, State.keyColByDataset[CSV_SOURCES[i].name]) # <<>>
                   /\ mergeKeyOf(r, State.keyColByDataset[CSV_SOURCES[i].name]) = key)
        ELSE <<>>)
       \o rowsMergedFor(key, i + 1)

\* the positions of the rows that supply a non-blank value for a column
Supplying(rows, col) ==
  { j \in DOMAIN rows : col \in DOMAIN rows[j] /\ Trim(rows[j][col]) # <<>> }

\* each column of the record is the first non-blank value supplied for it
FirstValuesKept(rec, rows) ==
  \A j \in DOMAIN rows : \A col \in DOMAIN rows[j] :
    Supplying(rows, col) # {} =>
      /\ col \in DOMAIN rec
      /\ rec[col] = rows[Min(Supplying(rows, col))][col]

\* C22: after any sequence of mergeRecord calls for a key, each field of the
\* merged record is the first non-blank value supplied for it, and the
\* display name of the key is the first one recorded.
C22_FirstNonEmptyWins ==
  \A key \in DOMAIN State.dataByKey :
    /\ rowsMergedFor(key, 1) # <<>>
    /\ FirstValuesKept(State.dataByKey[key], rowsMergedFor(key, 1))
    /\ State.keyToDisplay[key] =
         Cell(rowsMergedFor(key, 1)[1], chooseKeyColumn(rowsMergedFor(key, 1)[1], KeyColumns))

\* three datasets supplied Calories for avocado: a blank, then 99, then 7
C22_Witness ==
  /\ loading = LoadEnded
  /\ State.ready
  /\ csv.nutrition.rows[1][<<"C","a","l","o","r","i","e","s">>] = <<" ">>
  /\ State.dataByKey[<<"a","v","o","c","a","d","o">>][<<"C","a","l","o","r","i","e","s">>] = <<"9","9">>
  /\ State.keyToDisplay[<<"a","v","o","c","a","d","o">>] = <<"A","v","o","c","a","d","o">>

\* the record a request for a name reaches after the load holds the
\* non-blank columns of a row
reachesRow(name, row) ==
  /\ canonicalizeName(State.synonymsDynamic, name) \in DOMAIN State.dataByKey
  /\ \A col \in DOMAIN row :
       Trim(row[col]) # <<>> =>
         col \in DOMAIN State.dataByKey[canonicalizeName(State.synonymsDynamic, name)]

\* the rows of a merged dataset that have a key, with their keys
keyedRowsOf(name) ==
  { [ key |-> Cell(csv[name].rows[n], State.keyColByDataset[name]),
      row |-> csv[name].rows[n] ] : n \in DOMAIN csv[name].rows }

keyedRows ==
  { kr \in UNION { keyedRowsOf(CSV_SOURCES[i].name) : i \in MergedSources } :
      kr.key # <<>> }

\* C30: after the load a request for the key of a dataset row, or for the
\* canonical name synonyms.csv maps that key to, reaches the merged record
\* that holds the row.
C30_SynonymsReachDatasetKeys ==
  (loading = LoadEnded /\ State.ready) =>
    \A kr \in keyedRows :
      /\ reachesRow(kr.key, kr.row)
      /\ normalize(kr.key) \in DOMAIN State.synonymsDynamic =>
           reachesRow(State.synonymsDynamic[normalize(kr.key)], kr.row)

\* a row whose key is no alias of synonyms.csv is reached by a request for
\* its key
C30_UnaliasedKeysReached ==
  (loading = LoadEnded /\ State.ready) =>
    \A kr \in keyedRows :
      normalize(kr.key) \notin DOMAIN State.synonymsDynamic =>
        reachesRow(kr.key, kr.row)

(***************************************************************************)
(* Claims about the dataset lookups of buildAllTables                      *)
(***************************************************************************)
\* the diet records of an identity, spelled in any letter case, in arrival
\* order
dietRecordsIgnoringCase(c) ==
  SelectSeq(loaded.diet,
            LAMBDA r : CanonicalOf(r) # <<>> /\ Lower(CanonicalOf(r)) = Lower(c))

\* C23: a diet record that spells the identity of a resolved mention in a
\* different letter case is found for it: its textual no makes the verdict
\* of the tag No and names the ingredient.
C23_CaseInsensitiveLookup ==
  ReportDone =>
    \A k \in DOMAIN report.diet :
      \A i \in DOMAIN report.perIngredient :
        (/\ report.diet[k].diet # "-"
         /\ report.perIngredient[i].canonical # Unmapped
         /\ dietRecordsIgnoringCase(report.perIngredient[i].canonical) # <<>>
         /\ TextSaysNo(getField(dietRecordsIgnoringCase(report.perIngredient[i].canonical)[1],
                                << report.diet[k].diet >>)))
        => /\ report.diet[k].compat = "No"
           /\ report.perIngredient[i].ingredient \in Range(report.diet[k].names)

\* a cell parsed as the boolean false or the number 0
ParsedNegative(v) == v \in { Bool(FALSE), Num(0) }

\* C28: a diet cell parsed as boolean false or number 0 makes the verdict of
\* its tag No and lists the ingredient as offender.
C28_ParsedNegativeIsNo ==
  ReportDone =>
    \A k \in DOMAIN report.diet :
      \A i \in DOMAIN report.perIngredient :
        (/\ report.diet[k].diet # "-"
         /\ ParsedNegative(dietCellOf(report.perIngredient[i], report.diet[k].diet)))
        => /\ report.diet[k].compat = "No"
           /\ report.perIngredient[i].ingredient \in Range(report.diet[k].names)

\* C25: the per-ingredient rows of a report hold at most one row for each
\* canonical identity the phrases of the request resolved to.
C25_OneRowPerIdentity ==
  ReportDone =>
    \A i, j \in DOMAIN report.perIngredient :
      (/\ i # j
       /\ report.perIngredient[i].canonical # Unmapped)
      => Lower(report.perIngredient[i].canonical) # Lower(report.perIngredient[j].canonical)

\* the rows of a report are the phrases of the request that normalize to
\* something, one row each and in their order
C25_OneRowPerPhrase ==
  ReportDone =>
    /\ Len(report.perIngredient) <= Len(requestLines(entry))
    /\ Len(report.perIngredient) = Len(report.mapped)
    /\ \A i \in DOMAIN report.perIngredient :
         report.perIngredient[i].ingredient \in Range(requestLines(entry))

\* the positions in FIELD_ALIASES.canonical of the names a header has, in any
\* letter case
keyCandidatesIn(header) ==
  { i \in DOMAIN A_canonical :
      \E k \in header : LowerName(k) = LowerName(A_canonical[i]) }

\* the key column of a dataset: the column of its header named by the
\* highest-priority synonym
keyColumnOf(rows) ==
  CHOOSE k \in DOMAIN rows[1] :
    LowerName(k) = LowerName(A_canonical[Min(keyCandidatesIn(DOMAIN rows[1]))])

\* the key a record has in the key column of its dataset
keyIn(r, col) ==
  IF col \in DOMAIN r THEN Trim(JsString(JsOr(r[col], Str(<<>>)))) ELSE <<>>

\* the datasets of a request that have a key column
KeyedDatasets ==
  { f \in { "main", "diet" } :
      loaded[f] # <<>> /\ keyCandidatesIn(DOMAIN loaded[f][1]) # {} }

\* C26: every record of the index of a dataset is keyed by its value in the
\* one key column of the dataset; a record with an empty value there is not
\* in the index.
C26_KeyColumnFixedPerDataset ==
  ReportDone =>
    \A f \in KeyedDatasets :
      \A j \in DOMAIN indexByCanonical(loaded[f]) :
        \A n \in DOMAIN indexByCanonical(loaded[f])[j].val :
          keyIn(indexByCanonical(loaded[f])[j].val[n], keyColumnOf(loaded[f]))
            = indexByCanonical(loaded[f])[j].key

\* every record with a value in the key column of its dataset is in the
\* index under that value
C26_FilledKeyColumnKeys ==
  ReportDone =>
    \A f \in KeyedDatasets :
      \A n \in DOMAIN loaded[f] :
        keyIn(loaded[f][n], keyColumnOf(loaded[f])) # <<>> =>
          \E j \in DOMAIN indexByCanonical(loaded[f]) :
            /\ indexByCanonical(loaded[f])[j].key = keyIn(loaded[f][n], keyColumnOf(loaded[f]))
            /\ loaded[f][n] \in Range(indexByCanonical(loaded[f])[j].val)

\* the diet records of an ingredient row, in the order of the index
dietRecordsOf(r) == dietRowsOf(r, indexByCanonical(loaded.diet))

\* the positions of the records with a value under a diet tag
filledUnder(rows, dietName) ==
  { n \in DOMAIN rows : ~SaysNothing(getField(rows[n], << dietName >>)) }

\* the first non-empty value of a diet tag across the records of an
\* ingredient row; no such record reads as no cell
firstFilledCell(r, dietName) ==
  IF filledUnder(dietRecordsOf(r), dietName) = {} THEN Undef
  ELSE getField(dietRecordsOf(r)[Min(filledUnder(dietRecordsOf(r), dietName))],
                << dietName >>)

\* C27: when an identity has several diet records, the diet value used for
\* it is the first non-empty one across the records in arrival order: a no
\* in a later record, after an empty cell in the first, makes the verdict No.
C27_FirstNonEmptyAcrossRecords ==
  ReportDone =>
    \A k \in DOMAIN report.diet :
      \A i \in DOMAIN report.perIngredient :
        (/\ report.diet[k].diet # "-"
         /\ TextSaysNo(firstFilledCell(report.perIngredient[i], report.diet[k].diet)))
        => /\ report.diet[k].compat = "No"
           /\ report.perIngredient[i].ingredient \in Range(report.diet[k].names)

\* the records of one key of the index are the records of the dataset with
\* that key, in arrival order
C27_ArrivalOrder ==
  ReportDone =>
    \A f \in { "main", "diet" } :
      \A j \in DOMAIN indexByCanonical(loaded[f]) :
        indexByCanonical(loaded[f])[j].val =
          SelectSeq(loaded[f],
                    LAMBDA r : CanonicalOf(r) = indexByCanonical(loaded[f])[j].key)

(***************************************************************************)
(* Claims about overlapping requests                                       *)
(***************************************************************************)
\* the request in progress and the one it started over have both ended
BothRequestsEnded == pc = "done" /\ earlier = "ended"

\* a request of the add-on that produces tables
ProducesTables(fn) == ~loadDatasetsRejects(server) /\ requestLines(fn) # <<>>

\* the container and the status hold the outcome of the request of fn alone
ShowsRequestOf(fn) ==
  IF ProducesTables(fn)
    THEN tables = TableTitles /\ status = statusDone
  ELSE tables = <<>> /\ status = ""

\* the mount holds what the last call of BP.renderTables renders, alone
ShowsLastCall ==
  mount.nodes =
    renderedNodes(State, requestedKeys(State.synonymsDynamic, mount.request, 1))

\* C29: when a request started while an earlier one awaited its datasets and
\* both have ended, the container holds the tables of the later request
\* alone and the status is that of the later request; likewise the mount
\* after overlapping calls of BP.renderTables.
C29_LaterRequestAlone ==
  /\ BothRequestsEnded => ShowsRequestOf(entry)
  /\ RenderEnded => ShowsLastCall

\* requests and calls that do not overlap leave their own outcome alone
C29_WithoutOverlap ==
  (pc = "done" /\ earlier = "") => ShowsRequestOf(entry)

\* a step of loadAllCSVs that writes reference data of the v1 loader
WritesReferenceData ==
  \/ State'.dataByKey # State.dataByKey
  \/ State'.keyToDisplay # State.keyToDisplay
  \/ State'.synonymsDynamic # State.synonymsDynamic

\* a step in which calls of BP.renderTables read the reference data: they
\* leave `await BP.ready`
ReadsReferenceData == mount.waiting /\ ~mount'.waiting

\* BP.ready has resolved
ReadyResolved == loading = LoadEnded

\* the datasets a request of the add-on loaded: the rows the server has
OwnDatasets ==
  [ f \in FileNames |-> IF server[f].ok THEN server[f].rows ELSE <<>> ]

\* the report of the request is computed from the datasets and the alias
\* table the request loaded
ResolvedAgainstOwnData ==
  (pc = "done" /\ ProducesTables(entry)) =>
    /\ loaded = OwnDatasets
    /\ report = tablesWith(requestLines(entry), OwnDatasets,
                           buildAliasMapFromRows(OwnDatasets.settings))

\* C24: reference data is never written while a request reads it.  In the
\* v1 loader every write to dataByKey, keyToDisplay and synonymsDynamic is
\* made before BP.ready resolves and every read of BP.renderTables after it,
\* however the calls interleave with the load; a request of the add-on is
\* resolved against the datasets it loaded itself, which no step modifies.
C24_NoWriteWhileResolving ==
  /\ [](ResolvedAgainstOwnData)
  /\ [][ /\ WritesReferenceData => (~ReadyResolved /\ ~ReadsReferenceData)
         /\ ReadsReferenceData => (ReadyResolved /\ State' = State)
         /\ ReadyResolved => (ReadyResolved' /\ ~WritesReferenceData)
         /\ server' = server
         /\ loaded' # loaded => (pc = "loading" /\ pc' = "done") ]_vars

\* calls of BP.renderTables made over one another have rendered cards after
\* the load, and two overlapping requests of the add-on have ended
C24_Witness ==
  /\ ReadyResolved
  /\ State.ready
  /\ RenderEnded
  /\ RendersCard
  /\ Len(mount.nodes) > 2 + Len(CardTitles)
  /\ BothRequestsEnded
  /\ ProducesTables(entry)
====
